---- MODULE Spec2Model ----
(***************************************************************************)
(* A model of the embd-ide backend (src-tauri): the PTY session manager of *)
(* terminal.rs, its reader thread, and the project-root path guard and     *)
(* file commands of fs_commands.rs.                                        *)
(*                                                                         *)
(* Three specifications share the variables:                               *)
(*   SpecTerm    the session table, the id counter, spawn/write/resize/    *)
(*               kill and the lifecycle of the reader threads;             *)
(*   SpecReader  the byte-level loop of one reader thread;                 *)
(*   SpecFs      a filesystem with symlinks, the path guard and the file   *)
(*               commands.                                                 *)
(***************************************************************************)
EXTENDS Integers, Sequences, FiniteSets, TLC

(* ------------------------------ bounds --------------------------------- *)
\* number of spawn_terminal calls that get as far as opening a PTY
MaxSpawns == 2
\* number of bytes the PTY delivers to the byte-level reader before it closes
MaxStream == 5
\* number of components of a path argument
MaxPathLen == 2
\* number of file commands that may change the filesystem
MaxFsOps == 1
\* the paths of one call that takes a list
MaxList == 2
\* delete and duplicate calls in a row
MaxEntryOps == 2
\* the depths asked of read_dir_tree, besides none and those around the cap
MaxDepthArg == 2
\* the bytes of a file path handed to a VCS command
MaxFileLen == 2
\* the turns of its loops one copy_dir_recursive may take
MaxCopySteps == 4096
\* the terminal commands in flight at once or one after the other
MaxCalls == 4
\* the bytes of the data of one write_terminal call
DataLen == 2
\* the terminal commands in flight where the reader threads run beside them
MaxRacing == 3

VARIABLES
    sessions,   \* TerminalManager.sessions: id -> PtyInstance (its PTY)
    next_id,    \* TerminalManager.next_id
    calls,      \* the spawn_terminal calls, by the PTY each opened: position, local id
    readers,    \* the reader threads, by the PTY they read: event name and state
    emitted,    \* history: the (event stream, PTY read from) pairs emitted so far
    killed,     \* history: the ids for which a kill_terminal call has completed
    retired,    \* history: the ids removed from the table by kill_terminal
    last,       \* the command completed by the latest step, if any: name, id, outcome
    rd_state,   \* one reader thread, byte by byte: "running" in its loop, or "done"
    rd_pending, \* its Vec pending
    rd_all,     \* history: every byte reader.read has delivered to it, in order
    rd_chunks,  \* history: the chunks it has emitted, in order
    fs,         \* the filesystem: real path -> directory, file or symlink
    project_root, \* ProjectRootState: Option<PathBuf>
    fs_before,  \* history: the filesystem as the latest file command found it
    fs_last,    \* the latest file command: name, path argument, validation, outcome
    fs_ops,     \* how many commands that may change the filesystem have run
    mutex,      \* the Mutex of TerminalState: the thread that holds it, 0 if none
    threads,    \* the terminal commands called, each on its thread: position in its code
    stalled,    \* the sessions whose PTY takes no more input until the child reads
    pty_in      \* history: by session, the bytes its PTY has taken, each as its writer's thread

termVars == <<sessions, next_id, calls, readers, emitted, killed, retired, last>>
readerVars == <<rd_state, rd_pending, rd_all, rd_chunks>>
fsVars == <<fs, project_root, fs_before, fs_last, fs_ops>>
lockVars == <<mutex, threads, stalled, pty_in>>
\* what the session manager's steps leave alone
nonTermVars == <<readerVars, fsVars, lockVars>>
\* what the byte-level reader's steps leave alone
nonReaderVars == <<termVars, fsVars, lockVars>>
\* what the file commands leave alone
nonFsVars == <<termVars, readerVars, lockVars>>

vars == <<termVars, readerVars, fsVars, lockVars>>

Range(s) == {s[i] : i \in DOMAIN s}
\* the value of a step, worked out once and handed on as a value
Only(S) == CHOOSE r \in S : TRUE

(* --------------------------- terminal.rs ------------------------------- *)
\* the PTYs openpty can create, numbered in creation order
Ptys == 1..MaxSpawns
\* the ids a caller may pass: 0 is never issued, the others may be
Ids == 0..MaxSpawns

NoCall == [op |-> "none", id |-> 0, res |-> "Ok"]

\* the ids taken from the counter so far, and the PTY of the call that took each
Assigned == {calls[p].id : p \in {q \in DOMAIN calls : calls[q].pc # "opened"}}
OwnerPtys(id) == {p \in DOMAIN calls : calls[p].pc # "opened" /\ calls[p].id = id}
\* the ids spawn_terminal has returned so far
Returned == {calls[p].id : p \in {q \in DOMAIN calls : calls[q].pc = "done"}}

\* manager.next_id += 1 (a u32; the model stays far below its wrap at 2^32)
NextIdNoIncrement(n) == n
NextIdAfter(n) == n + 1

\* manager.sessions.remove(&id)
RemoveNothing(s, id) == s
RemoveAllSessions(s, id) == <<>>
RemoveSession(s, id) == [k \in DOMAIN s \ {id} |-> s[k]]

\* format!("terminal-output-{}", id): the event stream is named by the local id
EventNameFromCounter(p) == next_id - 1
EventName(p) == calls[p].id

\* spawn_terminal up to the lock: openpty, spawn_command, take_writer,
\* try_clone_reader all succeed; the pair is local to the call
spawn_open ==
    /\ Len(calls) < MaxSpawns
    /\ calls' = Append(calls, [pc |-> "opened", id |-> 0])
    /\ last' = NoCall
    /\ UNCHANGED <<sessions, next_id, readers, emitted, killed, retired>>
    /\ UNCHANGED nonTermVars

\* spawn_terminal returning Err from one of the `?` before the lock
spawn_fail ==
    /\ last' = [op |-> "spawn", id |-> 0, res |-> "Err"]
    /\ UNCHANGED <<sessions, next_id, calls, readers, emitted, killed, retired>>
    /\ UNCHANGED nonTermVars

\* the locked section: take the id, bump the counter, insert the entry
spawn_register(p) ==
    /\ p \in DOMAIN calls
    /\ calls[p].pc = "opened"
    /\ LET id == next_id IN
        /\ next_id' = NextIdAfter(next_id)
        /\ sessions' = [k \in DOMAIN sessions \cup {id} |->
                            IF k = id THEN [pty |-> p] ELSE sessions[k]]
        /\ calls' = [calls EXCEPT ![p] = [pc |-> "registered", id |-> id]]
    /\ last' = NoCall
    /\ UNCHANGED <<readers, emitted, killed, retired>>
    /\ UNCHANGED nonTermVars

\* after the lock is dropped: start the reader thread, return Ok(id)
spawn_reader(p) ==
    /\ p \in DOMAIN calls
    /\ calls[p].pc = "registered"
    /\ readers' = [q \in DOMAIN readers \cup {p} |->
                        IF q = p THEN [event |-> EventName(p), state |-> "running"]
                        ELSE readers[q]]
    /\ last' = [op |-> "spawn", id |-> calls[p].id, res |-> "Ok"]
    /\ calls' = [calls EXCEPT ![p].pc = "done"]
    /\ UNCHANGED <<sessions, next_id, emitted, killed, retired>>
    /\ UNCHANGED nonTermVars

\* write_terminal: lookup under the lock, then write_all and flush, which may fail
write_terminal(id) ==
    /\ \E io \in {"Ok", "IoError"} :
        last' = [op |-> "write", id |-> id,
                 res |-> IF id \in DOMAIN sessions THEN io ELSE "SessionNotFound"]
    /\ UNCHANGED <<sessions, next_id, calls, readers, emitted, killed, retired>>
    /\ UNCHANGED nonTermVars

\* resize_terminal: lookup under the lock, then master.resize, which may fail
resize_terminal(id) ==
    /\ \E io \in {"Ok", "IoError"} :
        last' = [op |-> "resize", id |-> id,
                 res |-> IF id \in DOMAIN sessions THEN io ELSE "SessionNotFound"]
    /\ UNCHANGED <<sessions, next_id, calls, readers, emitted, killed, retired>>
    /\ UNCHANGED nonTermVars

\* kill_terminal: remove the entry if there is one, return Ok either way
kill_terminal(id) ==
    /\ sessions' = RemoveSession(sessions, id)
    /\ killed' = killed \cup {id}
    /\ retired' = IF id \in DOMAIN sessions THEN retired \cup {id} ELSE retired
    /\ last' = [op |-> "kill", id |-> id, res |-> "Ok"]
    /\ UNCHANGED <<next_id, calls, readers, emitted>>
    /\ UNCHANGED nonTermVars

\* a reader thread that takes the session-table mutex to emit
reader_emit_locked(p) ==
    /\ p \in DOMAIN readers
    /\ readers[p].state = "running"
    /\ mutex = 0
    /\ readers[p].event \in DOMAIN sessions
    /\ emitted' = emitted \cup {[event |-> readers[p].event, pty |-> p]}
    /\ last' = NoCall
    /\ UNCHANGED <<sessions, next_id, calls, readers, killed, retired>>
    /\ UNCHANGED nonTermVars

\* the reader thread: Ok(n) with a non-empty valid prefix, emitted on its stream
reader_emit(p) ==
    /\ p \in DOMAIN readers
    /\ readers[p].state = "running"
    /\ emitted' = emitted \cup {[event |-> readers[p].event, pty |-> p]}
    /\ last' = NoCall
    /\ UNCHANGED <<sessions, next_id, calls, readers, killed, retired>>
    /\ UNCHANGED nonTermVars

\* a reader thread whose end of stream also retires the session
reader_exit_retires(p) ==
    /\ p \in DOMAIN readers
    /\ readers[p].state = "running"
    /\ readers' = [readers EXCEPT ![p].state = "closed"]
    /\ sessions' = RemoveSession(sessions, readers[p].event)
    /\ last' = NoCall
    /\ UNCHANGED <<next_id, calls, emitted, killed, retired>>
    /\ UNCHANGED nonTermVars

\* the reader thread: Ok(0) or Err(_), the flush, and the end of the thread
reader_exit(p) ==
    /\ p \in DOMAIN readers
    /\ readers[p].state = "running"
    /\ readers' = [readers EXCEPT ![p].state = "closed"]
    /\ last' = NoCall
    /\ UNCHANGED <<sessions, next_id, calls, emitted, killed, retired>>
    /\ UNCHANGED nonTermVars

(* ------------- terminal.rs: the commands and the mutex ------------------ *)
\* The four commands once more, each on a thread of its own and step by step
\* around state.lock(): "wait" at the call of lock(), "locked" with the guard in
\* hand, "io" inside a call on the PTY, "done" returned.
Commands == {"spawn", "write", "resize", "kill"}
Thread(op, id, pc) == [op |-> op, id |-> id, pc |-> pc]
At(t, op, pc) == t \in DOMAIN threads /\ threads[t].op = op /\ threads[t].pc = pc

\* a command is called; spawn_terminal has opened its PTY when it comes to lock()
invoke(op, id) ==
    /\ Len(threads) < MaxCalls
    /\ op = "spawn" => id = 0
    /\ threads' = Append(threads, Thread(op, id, "wait"))
    /\ last' = NoCall
    /\ UNCHANGED <<mutex, stalled, pty_in>>
    /\ UNCHANGED <<sessions, next_id, calls, readers, emitted, killed, retired>>
    /\ UNCHANGED <<readerVars, fsVars>>

\* a lock() that returns whether or not another thread has the guard
lock_unguarded(t) ==
    /\ t \in DOMAIN threads
    /\ threads[t].pc = "wait"
    /\ mutex' = t
    /\ threads' = [threads EXCEPT ![t].pc = "locked"]
    /\ last' = NoCall
    /\ UNCHANGED <<stalled, pty_in>>
    /\ UNCHANGED <<sessions, next_id, calls, readers, emitted, killed, retired>>
    /\ UNCHANGED <<readerVars, fsVars>>

\* state.lock() returns: the mutex was free
lock(t) ==
    /\ t \in DOMAIN threads
    /\ threads[t].pc = "wait"
    /\ mutex = 0
    /\ mutex' = t
    /\ threads' = [threads EXCEPT ![t].pc = "locked"]
    /\ last' = NoCall
    /\ UNCHANGED <<stalled, pty_in>>
    /\ UNCHANGED <<sessions, next_id, calls, readers, emitted, killed, retired>>
    /\ UNCHANGED <<readerVars, fsVars>>

\* spawn_terminal returns Err from one of the `?` before state.lock(): openpty,
\* spawn_command, take_writer or try_clone_reader failed
SpawnSteps == {"openpty", "spawn_command", "take_writer", "try_clone_reader"}
\* a spawn that takes its id before the steps that may fail
spawn_fails_consuming(step) ==
    /\ Len(threads) < MaxCalls
    /\ step \in SpawnSteps
    /\ threads' = Append(threads, Thread("spawn", 0, "failed"))
    /\ last' = [op |-> "spawn", id |-> 0, res |-> "Err"]
    /\ next_id' = NextIdAfter(next_id)
    /\ UNCHANGED <<mutex, stalled, pty_in>>
    /\ UNCHANGED <<sessions, calls, readers, emitted, killed, retired>>
    /\ UNCHANGED <<readerVars, fsVars>>

spawn_fails(step) ==
    /\ Len(threads) < MaxCalls
    /\ step \in SpawnSteps
    /\ threads' = Append(threads, Thread("spawn", 0, "failed"))
    /\ last' = [op |-> "spawn", id |-> 0, res |-> "Err"]
    /\ UNCHANGED <<mutex, stalled, pty_in>>
    /\ UNCHANGED <<sessions, next_id, calls, readers, emitted, killed, retired>>
    /\ UNCHANGED <<readerVars, fsVars>>

\* state.lock() returns Err and the `?` returns it: the mutex is poisoned, which
\* takes a thread that panicked with the guard in hand; when that happens is
\* left open
lock_fails(t) ==
    /\ t \in DOMAIN threads
    /\ threads[t].pc = "wait"
    /\ threads' = [threads EXCEPT ![t].pc = "failed"]
    /\ last' = [op |-> threads[t].op, id |-> threads[t].id, res |-> "Err"]
    /\ UNCHANGED <<mutex, stalled, pty_in>>
    /\ UNCHANGED <<sessions, next_id, calls, readers, emitted, killed, retired>>
    /\ UNCHANGED <<readerVars, fsVars>>

\* spawn_terminal with the guard: take the id, insert, drop(manager)
spawn_insert(t) ==
    /\ At(t, "spawn", "locked")
    /\ sessions' = [k \in DOMAIN sessions \cup {next_id} |->
                        IF k = next_id THEN [pty |-> t] ELSE sessions[k]]
    /\ pty_in' = [k \in DOMAIN pty_in \cup {next_id} |->
                        IF k = next_id THEN <<>> ELSE pty_in[k]]
    /\ next_id' = NextIdAfter(next_id)
    /\ mutex' = 0
    /\ threads' = [threads EXCEPT ![t] = Thread("spawn", next_id, "inserted")]
    /\ last' = NoCall
    /\ UNCHANGED stalled
    /\ UNCHANGED <<calls, readers, emitted, killed, retired>>
    /\ UNCHANGED <<readerVars, fsVars>>

\* spawn_terminal after drop(manager): thread::spawn starts the reader of the
\* PTY this call opened, on the event stream named by its id; Ok(id)
spawn_return(t) ==
    /\ At(t, "spawn", "inserted")
    /\ readers' = [q \in DOMAIN readers \cup {t} |->
                        IF q = t THEN [event |-> threads[t].id, state |-> "running"]
                        ELSE readers[q]]
    /\ threads' = [threads EXCEPT ![t].pc = "done"]
    /\ last' = [op |-> "spawn", id |-> threads[t].id, res |-> "Ok"]
    /\ UNCHANGED <<mutex, stalled, pty_in>>
    /\ UNCHANGED <<sessions, next_id, calls, emitted, killed, retired>>
    /\ UNCHANGED <<readerVars, fsVars>>

\* write_terminal and resize_terminal with the guard: sessions.get_mut(&id);
\* the `?` returns and drops the guard, otherwise the guard lives on
get_session(t) ==
    /\ At(t, "write", "locked") \/ At(t, "resize", "locked")
    /\ IF threads[t].id \in DOMAIN sessions
       THEN /\ threads' = [threads EXCEPT ![t].pc = "io"]
            /\ last' = NoCall
            /\ UNCHANGED mutex
       ELSE /\ threads' = [threads EXCEPT ![t].pc = "done"]
            /\ last' = [op |-> threads[t].op, id |-> threads[t].id, res |-> "SessionNotFound"]
            /\ mutex' = 0
    /\ UNCHANGED <<stalled, pty_in>>
    /\ UNCHANGED <<sessions, next_id, calls, readers, emitted, killed, retired>>
    /\ UNCHANGED <<readerVars, fsVars>>

\* the bytes of data that write_all of thread t has handed to the PTY so far
Written(t) ==
    Cardinality({i \in DOMAIN pty_in[threads[t].id] : pty_in[threads[t].id][i] = t})
Bytes_of(t, n) == [i \in 1..n |-> t]

\* write_all: one write(2) that takes a byte of data and leaves some for the next
pty_write_some(t) ==
    /\ At(t, "write", "io")
    /\ threads[t].id \notin stalled
    /\ Written(t) + 1 < DataLen
    /\ pty_in' = [pty_in EXCEPT ![threads[t].id] = @ \o Bytes_of(t, 1)]
    /\ last' = NoCall
    /\ UNCHANGED <<mutex, threads, stalled>>
    /\ UNCHANGED <<sessions, next_id, calls, readers, emitted, killed, retired>>
    /\ UNCHANGED <<readerVars, fsVars>>

\* write_all and flush return, which they do once the PTY takes the bytes, or
\* an error of the PTY ends them; the function returns and the guard is dropped
pty_write(t) ==
    /\ At(t, "write", "io")
    /\ threads[t].id \notin stalled
    /\ \E io \in {"Ok", "IoError"} :
        /\ last' = [op |-> "write", id |-> threads[t].id, res |-> io]
        /\ pty_in' = IF io = "Ok"
                      THEN [pty_in EXCEPT ![threads[t].id] =
                                @ \o Bytes_of(t, DataLen - Written(t))]
                      ELSE pty_in
    /\ threads' = [threads EXCEPT ![t].pc = "done"]
    /\ mutex' = 0
    /\ UNCHANGED stalled
    /\ UNCHANGED <<sessions, next_id, calls, readers, emitted, killed, retired>>
    /\ UNCHANGED <<readerVars, fsVars>>

\* master.resize returns; the function returns and the guard is dropped
pty_resize(t) ==
    /\ At(t, "resize", "io")
    /\ \E io \in {"Ok", "IoError"} :
        last' = [op |-> "resize", id |-> threads[t].id, res |-> io]
    /\ threads' = [threads EXCEPT ![t].pc = "done"]
    /\ mutex' = 0
    /\ UNCHANGED <<stalled, pty_in>>
    /\ UNCHANGED <<sessions, next_id, calls, readers, emitted, killed, retired>>
    /\ UNCHANGED <<readerVars, fsVars>>

\* kill_terminal with the guard: sessions.remove(&id), return
kill_remove(t) ==
    /\ At(t, "kill", "locked")
    /\ sessions' = RemoveSession(sessions, threads[t].id)
    /\ killed' = killed \cup {threads[t].id}
    /\ retired' = IF threads[t].id \in DOMAIN sessions THEN retired \cup {threads[t].id}
                  ELSE retired
    /\ stalled' = stalled \ {threads[t].id}
    /\ mutex' = 0
    /\ threads' = [threads EXCEPT ![t].pc = "done"]
    /\ last' = [op |-> "kill", id |-> threads[t].id, res |-> "Ok"]
    /\ UNCHANGED pty_in
    /\ UNCHANGED <<next_id, calls, readers, emitted>>
    /\ UNCHANGED <<readerVars, fsVars>>

\* the child of a session stops reading its input and the PTY fills up
child_stalls(id) ==
    /\ id \in DOMAIN sessions
    /\ id \notin stalled
    /\ stalled' = stalled \cup {id}
    /\ last' = NoCall
    /\ UNCHANGED <<mutex, threads, pty_in>>
    /\ UNCHANGED <<sessions, next_id, calls, readers, emitted, killed, retired>>
    /\ UNCHANGED <<readerVars, fsVars>>

\* the child reads again
child_reads(id) ==
    /\ id \in stalled
    /\ stalled' = stalled \ {id}
    /\ last' = NoCall
    /\ UNCHANGED <<mutex, threads, pty_in>>
    /\ UNCHANGED <<sessions, next_id, calls, readers, emitted, killed, retired>>
    /\ UNCHANGED <<readerVars, fsVars>>

(* ------------------ terminal.rs: the reader thread's loop --------------- *)
\* the bytes the PTY may deliver: 'A', the lead bytes of a 2-, 3- and 4-byte
\* character, a continuation byte, and a byte that occurs in no UTF-8 text
Bytes == {65, 195, 226, 240, 169, 255}
\* char::REPLACEMENT_CHARACTER, which from_utf8_lossy puts for a malformed sequence
Replacement == 65533

\* the non-empty reads of at most n bytes
Reads(n) == UNION {[1..k -> Bytes] : k \in 1..n}

IsCont(b) == b >= 128 /\ b <= 191
utf8_char_width(b) ==
    IF b < 128 THEN 1
    ELSE IF b >= 194 /\ b <= 223 THEN 2
    ELSE IF b >= 224 /\ b <= 239 THEN 3
    ELSE IF b >= 240 /\ b <= 244 THEN 4
    ELSE 0
SafeGet(s, i) == IF i <= Len(s) THEN s[i] ELSE 0
\* the second byte a 3- or 4-byte lead admits (no overlong form, no surrogate,
\* nothing above U+10FFFF)
SecondOk(first, second) ==
    \/ first = 224 /\ second >= 160 /\ second <= 191
    \/ first >= 225 /\ first <= 236 /\ IsCont(second)
    \/ first = 237 /\ second >= 128 /\ second <= 159
    \/ first >= 238 /\ first <= 239 /\ IsCont(second)
    \/ first = 240 /\ second >= 144 /\ second <= 191
    \/ first >= 241 /\ first <= 243 /\ IsCont(second)
    \/ first = 244 /\ second >= 128 /\ second <= 143
\* one step of the standard library's UTF-8 scan at index i: the bytes it takes
\* and whether they are one well-formed character
Scan(s, i) ==
    LET w == utf8_char_width(s[i]) IN
    IF w = 1 THEN [n |-> 1, ok |-> TRUE]
    ELSE IF w = 2 THEN
        IF IsCont(SafeGet(s, i + 1)) THEN [n |-> 2, ok |-> TRUE]
        ELSE [n |-> 1, ok |-> FALSE]
    ELSE IF w = 3 THEN
        IF ~SecondOk(s[i], SafeGet(s, i + 1)) THEN [n |-> 1, ok |-> FALSE]
        ELSE IF ~IsCont(SafeGet(s, i + 2)) THEN [n |-> 2, ok |-> FALSE]
        ELSE [n |-> 3, ok |-> TRUE]
    ELSE IF w = 4 THEN
        IF ~SecondOk(s[i], SafeGet(s, i + 1)) THEN [n |-> 1, ok |-> FALSE]
        ELSE IF ~IsCont(SafeGet(s, i + 2)) THEN [n |-> 2, ok |-> FALSE]
        ELSE IF ~IsCont(SafeGet(s, i + 3)) THEN [n |-> 3, ok |-> FALSE]
        ELSE [n |-> 4, ok |-> TRUE]
    ELSE [n |-> 1, ok |-> FALSE]

RECURSIVE ValidFrom(_, _)
ValidFrom(s, i) ==
    IF i > Len(s) THEN TRUE
    ELSE LET r == Scan(s, i) IN r.ok /\ ValidFrom(s, i + r.n)
\* std::str::from_utf8(s).is_ok()
from_utf8_ok(s) == ValidFrom(s, 1)

RECURSIVE LossyFrom(_, _)
LossyFrom(s, i) ==
    IF i > Len(s) THEN <<>>
    ELSE LET r == Scan(s, i) IN
         (IF r.ok THEN SubSeq(s, i, i + r.n - 1) ELSE <<Replacement>>)
            \o LossyFrom(s, i + r.n)
\* String::from_utf8_lossy(s): the text, as its characters' bytes, with one
\* Replacement for each malformed sequence
from_utf8_lossy(s) == LossyFrom(s, 1)

RECURSIVE WalkBack(_, _)
WalkBack(p, len) ==
    IF len > 0 /\ ~from_utf8_ok(SubSeq(p, 1, len)) THEN WalkBack(p, len - 1) ELSE len
\* let valid_len = { ... while len > 0 && from_utf8(&pending[..len]).is_err() ... }
valid_len_no_walk(p) == Len(p)
valid_len(p) == WalkBack(p, Len(p))

\* pending.drain(..n)
DrainAll(p, n) == <<>>
Drain(p, n) == SubSeq(p, n + 1, Len(p))

\* Ok(n): extend pending, emit its longest valid prefix if there is one, drain it
reader_read(bs) ==
    /\ rd_state = "running"
    /\ Len(rd_all) + Len(bs) <= MaxStream
    /\ LET p == rd_pending \o bs
           n == valid_len(p)
       IN /\ rd_all' = rd_all \o bs
          /\ rd_chunks' =
                IF n > 0
                THEN Append(rd_chunks, [raw |-> SubSeq(p, 1, n),
                                        text |-> from_utf8_lossy(SubSeq(p, 1, n)),
                                        held |-> Len(rd_pending),
                                        final |-> FALSE])
                ELSE rd_chunks
          /\ rd_pending' = IF n > 0 THEN Drain(p, n) ELSE p
    /\ UNCHANGED rd_state
    /\ UNCHANGED nonReaderVars

\* after the loop: if !pending.is_empty() { emit(from_utf8_lossy(&pending)) }
Flush ==
    /\ rd_chunks' =
            IF rd_pending # <<>>
            THEN Append(rd_chunks, [raw |-> rd_pending,
                                    text |-> from_utf8_lossy(rd_pending),
                                    held |-> Len(rd_pending),
                                    final |-> TRUE])
            ELSE rd_chunks
    /\ rd_state' = "done"
    /\ UNCHANGED <<rd_pending, rd_all>>
    /\ UNCHANGED nonReaderVars

\* Ok(0) => break
reader_eof ==
    /\ rd_state = "running"
    /\ Flush

\* Err(_) => break
reader_err ==
    /\ rd_state = "running"
    /\ Flush

NextReader ==
    \/ \E bs \in Reads(MaxStream - Len(rd_all)) : reader_read(bs)
    \/ reader_eof
    \/ reader_err


(* ------------------ fs_commands.rs: paths and the filesystem ------------ *)
\* A path is absolute, the sequence of its components; a real path, one the
\* filesystem holds an entry for, has names only.
Names == {"proj", "out", "l"}
Comps == Names \cup {".."}
\* the path arguments a caller may pass
PathArgs == UNION {[1..k -> Comps] : k \in 0..MaxPathLen}
\* the content a caller may write
WriteContents == {"x", "y"}

Dir == [kind |-> "dir", target |-> <<>>, content |-> ""]
File(c) == [kind |-> "file", target |-> <<>>, content |-> c]
Link(t) == [kind |-> "link", target |-> t, content |-> ""]

\* what the user may have put on disk before the program runs: /proj and /out,
\* and possibly a symlink /proj/l to a directory outside, to a name outside that
\* does not exist yet, to /proj itself, or to a name inside that does not exist yet
LinkTargets == {<<"out">>, <<"out", "l">>, <<"proj">>, <<"proj", "out">>}
BaseTree == (<<>> :> Dir) @@ (<<"proj">> :> Dir) @@ (<<"out">> :> Dir)

Parent(p) == SubSeq(p, 1, Len(p) - 1)
Last(p) == p[Len(p)]
\* a sequence left in the order it has
KeepOrder(q) == q
RECURSIVE Reverse(_)
Reverse(q) == IF q = <<>> THEN <<>> ELSE Append(Reverse(Tail(q)), Head(q))

\* The kernel's path resolution from the real directory cur: ".." goes to the
\* parent, a symlink is replaced by its (absolute) target, the last one too when
\* followLast. "found": an entry at path; "missing": no entry at path, whose
\* parent directory exists; otherwise the error. The symlinks are the user's;
\* they form no cycle.
\* the components at the head of rest, its last one left out, that name
\* directories below cur one after the other, with no ".." and no symlink
\* among them
PlainSteps(f, cur, rest) ==
    LET Stops(i) == \/ rest[i] = ".."
                    \/ cur \o SubSeq(rest, 1, i) \notin DOMAIN f
                    \/ f[cur \o SubSeq(rest, 1, i)].kind # "dir"
        stops == {i \in 1..(Len(rest) - 1) : Stops(i)}
    IN IF Len(rest) = 1 THEN 0
       ELSE IF Stops(1) THEN 0
       ELSE IF Len(rest) = 2 THEN 1
       ELSE IF stops = {} THEN Len(rest) - 1
       ELSE (CHOOSE i \in stops : \A j \in stops : i <= j) - 1
RECURSIVE Walk(_, _, _, _)
Walk(f, cur, rest, followLast) ==
    IF rest = <<>> THEN [st |-> "found", path |-> cur]
    ELSE IF f[cur].kind # "dir" THEN [st |-> "ENOTDIR", path |-> cur]
    ELSE Only({
        IF plain > 0
        THEN Walk(f, cur \o SubSeq(rest, 1, plain), SubSeq(rest, plain + 1, Len(rest)),
                  followLast)
        ELSE LET c == Head(rest)
                 r == Tail(rest)
                 n == Append(cur, c)
             IN IF c = ".." THEN Walk(f, Parent(cur), r, followLast)
                ELSE IF n \notin DOMAIN f
                     THEN [st |-> IF r = <<>> THEN "missing" ELSE "ENOENT", path |-> n]
                ELSE IF f[n].kind = "link" /\ (r # <<>> \/ followLast)
                     THEN Walk(f, <<>>, f[n].target \o r, followLast)
                ELSE Walk(f, n, r, followLast) :
        plain \in {PlainSteps(f, cur, rest)}})

\* A relative path is written with Cwd, the empty prefix, as its first
\* component: <<Cwd>> is the empty path "", which names nothing, and what
\* follows Cwd is looked up from WorkDir, the directory the process runs in.
Cwd == ""
WorkDir == <<"proj">>
IsRelative(p) == p # <<>> /\ Head(p) = Cwd
FromCwd(p) == IF IsRelative(p) THEN WorkDir \o Tail(p) ELSE p

Resolve(f, p) == Walk(f, <<>>, FromCwd(p), TRUE)
\* Path::exists, Path::is_dir and fs::canonicalize: all follow symlinks
exists(f, p) == p # <<Cwd>> /\ Resolve(f, p).st = "found"
is_dir(f, p) == exists(f, p) /\ f[Resolve(f, p).path].kind = "dir"
\* a canonicalize that hands back the path as it was given
canonicalize_as_given(f, p) == [ok |-> exists(f, p), path |-> p]
canonicalize(f, p) == [ok |-> exists(f, p), path |-> Resolve(f, p).path]
\* Path::starts_with: by whole components
StartsWith(a, b) == Len(b) <= Len(a) /\ SubSeq(a, 1, Len(b)) = b

NoRoot == [some |-> FALSE, path |-> <<>>]
Accept(path) == [ok |-> TRUE, err |-> "", path |-> path]
Reject(err) == [ok |-> FALSE, err |-> err, path |-> <<>>]

\* validate_path, the loop: strip components until an ancestor exists. parent()
\* is None at the root and at the empty path; file_name() is None for a path
\* that ends in ".."; trailing_parts is pushed leaf first.
RECURSIVE NearestAncestor(_, _, _)
NearestAncestor(f, ancestor, trailing_parts) ==
    IF ancestor = <<>> \/ ancestor = <<Cwd>> THEN [ok |-> FALSE, err |-> "NoExistingAncestor",
                             ancestor |-> <<>>, trailing_parts |-> <<>>]
    ELSE IF Last(ancestor) = ".." THEN [ok |-> FALSE, err |-> "InvalidPath",
                                        ancestor |-> <<>>, trailing_parts |-> <<>>]
    ELSE LET parts == Append(trailing_parts, Last(ancestor)) IN
         IF exists(f, Parent(ancestor))
         THEN [ok |-> TRUE, err |-> "", ancestor |-> Parent(ancestor),
               trailing_parts |-> parts]
         ELSE NearestAncestor(f, Parent(ancestor), parts)

\* validate_path without the test for an open project
validate_path_unrooted(f, root, p) ==
    IF ~root.some THEN Accept(p)
    ELSE IF exists(f, p) /\ StartsWith(canonicalize(f, p).path, root.path)
         THEN Accept(canonicalize(f, p).path)
    ELSE Reject("AccessDenied")

\* validate_path that hands back the path as it was given
validate_path_as_given(f, root, p) ==
    IF ~root.some THEN Reject("NoProjectOpen")
    ELSE IF exists(f, p) /\ StartsWith(canonicalize(f, p).path, root.path)
         THEN Accept(p)
    ELSE Reject("AccessDenied")

validate_path(f, root, p) ==
    IF ~root.some THEN Reject("NoProjectOpen")
    ELSE LET canonical ==
                IF exists(f, p) THEN Accept(canonicalize(f, p).path)
                ELSE LET a == NearestAncestor(f, p, <<>>) IN
                     IF ~a.ok THEN Reject(a.err)
                     ELSE IF \E i \in DOMAIN a.trailing_parts :
                                a.trailing_parts[i] \in {"..", "."}
                          THEN Reject("InvalidPath")
                     ELSE Accept(canonicalize(f, a.ancestor).path
                                    \o Reverse(a.trailing_parts))
         IN IF ~canonical.ok THEN canonical
            ELSE IF ~StartsWith(canonical.path, root.path) THEN Reject("AccessDenied")
            ELSE canonical

\* validate_repo_path that also lets the ancestors of the root through
validate_repo_path_or_ancestor(f, root, p) ==
    IF ~root.some THEN Reject("NoProjectOpen")
    ELSE IF ~canonicalize(f, p).ok THEN Reject("InvalidRepoPath")
    ELSE IF ~(StartsWith(canonicalize(f, p).path, root.path)
                \/ StartsWith(root.path, canonicalize(f, p).path))
         THEN Reject("AccessDenied")
    ELSE Accept(canonicalize(f, p).path)

validate_repo_path(f, root, p) ==
    IF ~root.some THEN Reject("NoProjectOpen")
    ELSE IF ~canonicalize(f, p).ok THEN Reject("InvalidRepoPath")
    ELSE IF ~StartsWith(canonicalize(f, p).path, root.path) THEN Reject("AccessDenied")
    ELSE Accept(canonicalize(f, p).path)

(* ------------------ fs_commands.rs: the file commands ------------------- *)
FsResult(ok, f) == [ok |-> ok, fs |-> f]
\* the entry e at n, put there or in the place of what was there
Put(f, n, e) == (n :> e) @@ f

\* mkdir(2): the parent is resolved through symlinks, the last component is
\* not; an existing entry of any kind, a dangling symlink too, is EEXIST
mkdir(f, p) ==
    IF p = <<>> \/ Last(p) = ".." THEN
        [st |-> IF exists(f, p) THEN "EEXIST" ELSE "ENOENT", fs |-> f]
    ELSE LET w == Walk(f, <<>>, p, FALSE) IN
         IF w.st = "found" THEN [st |-> "EEXIST", fs |-> f]
         ELSE IF w.st = "missing" THEN [st |-> "ok", fs |-> Put(f, w.path, Dir)]
         ELSE [st |-> w.st, fs |-> f]

\* fs::create_dir_all: mkdir; on NotFound create the parent first and retry; any
\* other error is fine when the path is a directory by then
\* a create_dir_all that makes the last directory only
create_dir_last(f, p) ==
    LET m == mkdir(f, p) IN
    IF m.st = "ok" THEN FsResult(TRUE, m.fs) ELSE FsResult(is_dir(f, p), f)

\* a write that truncates the file and stores nothing
fs_write_empty(f, p, c) ==
    LET w == Resolve(f, p) IN
    IF w.st \in {"found", "missing"} /\ (w.st = "missing" \/ f[w.path].kind = "file")
    THEN FsResult(TRUE, Put(f, w.path, File("")))
    ELSE FsResult(FALSE, f)

RECURSIVE create_dir_all(_, _)
create_dir_all(f, p) ==
    LET m == mkdir(f, p) IN
    IF m.st = "ok" THEN FsResult(TRUE, m.fs)
    ELSE IF m.st # "ENOENT" THEN FsResult(is_dir(f, p), f)
    ELSE IF p = <<>> THEN FsResult(FALSE, f)
    ELSE LET up == create_dir_all(f, Parent(p)) IN
         IF ~up.ok THEN up
         ELSE LET again == mkdir(up.fs, p) IN
              IF again.st = "ok" THEN FsResult(TRUE, again.fs)
              ELSE FsResult(is_dir(up.fs, p), up.fs)

\* fs::write: open(O_WRONLY | O_CREAT | O_TRUNC) follows a symlink in the last
\* component too, and creates the file the path resolves to
fs_write(f, p, c) ==
    LET w == Resolve(f, p) IN
    IF w.st = "found" /\ f[w.path].kind = "file" THEN FsResult(TRUE, Put(f, w.path, File(c)))
    ELSE IF w.st = "missing" THEN FsResult(TRUE, Put(f, w.path, File(c)))
    ELSE FsResult(FALSE, f)

\* the record of a file command: its arguments (path, and arg for what else it
\* was given), what the guard said, and what it returned
DoneWith(op, p, arg, v, res, out) ==
    [op |-> op, path |-> p, arg |-> arg, vp |-> v, res |-> res, out |-> out]
Done(op, p, v, res, out) == DoneWith(op, p, "", v, res, out)
NoFsCall == Done("none", <<>>, Reject(""), "Ok", "")

\* set_project_root: canonicalize, then replace the root
set_project_root(p) ==
    /\ project_root' = IF canonicalize(fs, p).ok
                       THEN [some |-> TRUE, path |-> canonicalize(fs, p).path]
                       ELSE project_root
    /\ fs_last' = Done("set_project_root", p, Reject(""),
                       IF canonicalize(fs, p).ok THEN "Ok" ELSE "InvalidPath", "")
    /\ fs_before' = fs
    /\ UNCHANGED <<fs, fs_ops>>
    /\ UNCHANGED nonFsVars

read_file_content(p) ==
    /\ LET v == validate_path(fs, project_root, p)
           w == Resolve(fs, p)
           readable == w.st = "found" /\ fs[w.path].kind = "file"
       IN fs_last' = Done("read_file_content", p, v,
                          IF ~v.ok THEN v.err ELSE IF readable THEN "Ok" ELSE "IoError",
                          IF v.ok /\ readable THEN fs[w.path].content ELSE "")
    /\ fs_before' = fs
    /\ UNCHANGED <<fs, project_root, fs_ops>>
    /\ UNCHANGED nonFsVars

write_file_content(p, c) ==
    /\ fs_ops < MaxFsOps
    /\ fs_ops' = fs_ops + 1
    /\ LET v == validate_path(fs, project_root, p)
           w == fs_write(fs, p, c)
       IN /\ fs' = IF v.ok THEN w.fs ELSE fs
          /\ fs_last' = DoneWith("write_file_content", p, c, v,
                                 IF ~v.ok THEN v.err ELSE IF w.ok THEN "Ok" ELSE "IoError", "")
    /\ fs_before' = fs
    /\ UNCHANGED project_root
    /\ UNCHANGED nonFsVars

create_file(p) ==
    /\ fs_ops < MaxFsOps
    /\ fs_ops' = fs_ops + 1
    /\ LET v == validate_path(fs, project_root, p)
           dirs == IF p = <<>> THEN FsResult(TRUE, fs) ELSE create_dir_all(fs, Parent(p))
           w == fs_write(dirs.fs, p, "")
       IN IF ~v.ok THEN
              /\ fs' = fs
              /\ fs_last' = Done("create_file", p, v, v.err, "")
          ELSE IF exists(fs, p) THEN
              /\ fs' = fs
              /\ fs_last' = Done("create_file", p, v, "AlreadyExists", "")
          ELSE IF ~dirs.ok THEN
              /\ fs' = dirs.fs
              /\ fs_last' = Done("create_file", p, v, "IoError", "")
          ELSE
              /\ fs' = w.fs
              /\ fs_last' = Done("create_file", p, v, IF w.ok THEN "Ok" ELSE "IoError", "")
    /\ fs_before' = fs
    /\ UNCHANGED project_root
    /\ UNCHANGED nonFsVars

create_folder(p) ==
    /\ fs_ops < MaxFsOps
    /\ fs_ops' = fs_ops + 1
    /\ LET v == validate_path(fs, project_root, p)
           dirs == create_dir_all(fs, p)
       IN IF ~v.ok THEN
              /\ fs' = fs
              /\ fs_last' = Done("create_folder", p, v, v.err, "")
          ELSE IF exists(fs, p) THEN
              /\ fs' = fs
              /\ fs_last' = Done("create_folder", p, v, "AlreadyExists", "")
          ELSE
              /\ fs' = dirs.fs
              /\ fs_last' = Done("create_folder", p, v, IF dirs.ok THEN "Ok" ELSE "IoError", "")
    /\ fs_before' = fs
    /\ UNCHANGED project_root
    /\ UNCHANGED nonFsVars

\* The bytes of git's short status letters, of the blank and of the NUL that
\* ends an entry of `git status --porcelain -z`
StatusByte(c) ==
    CASE c = "NUL" -> 0 [] c = " " -> 32 [] c = "!" -> 33 [] c = "?" -> 63
      [] c = "A" -> 65 [] c = "C" -> 67 [] c = "D" -> 68 [] c = "M" -> 77
      [] c = "R" -> 82 [] c = "T" -> 84 [] c = "U" -> 85
StatusBytes == {StatusByte(c) : c \in {" ", "!", "?", "A", "C", "D", "M", "R", "T", "U"}}
ConflictPairs ==
    {<<StatusByte(c[1]), StatusByte(c[2])>> :
        c \in {<<"U", "U">>, <<"A", "A">>, <<"D", "D">>, <<"A", "U">>, <<"U", "A">>,
               <<"D", "U">>, <<"U", "D">>}}

\* the codes as the comment above get_git_status lists them: "?" for
\* untracked, "R" for renamed, and no code for a conflict
status_as_documented(index_status, wt_status) ==
    IF index_status = StatusByte("?") /\ wt_status = StatusByte("?") THEN "?"
    ELSE IF index_status = StatusByte("A") THEN "A"
    ELSE IF index_status = StatusByte("R") THEN "R"
    ELSE IF index_status = StatusByte("M") /\ wt_status \in {StatusByte(" "), StatusByte("NUL")}
        THEN "S"
    ELSE IF index_status = StatusByte("D") \/ wt_status = StatusByte("D") THEN "D"
    ELSE "M"

\* let status = match (index_status, wt_status) { .. }: the arms in their order
status_code(index_status, wt_status) ==
    IF index_status = StatusByte("?") /\ wt_status = StatusByte("?") THEN "U"
    ELSE IF <<index_status, wt_status>> \in ConflictPairs THEN "C"
    ELSE IF index_status = StatusByte("A") THEN "A"
    ELSE IF index_status = StatusByte("R") THEN "A"
    ELSE IF index_status = StatusByte("M") /\ wt_status \in {StatusByte(" "), StatusByte("NUL")}
        THEN "S"
    ELSE IF index_status = StatusByte("D") \/ wt_status = StatusByte("D") THEN "D"
    ELSE IF wt_status = StatusByte("M") THEN "M"
    ELSE "M"

\* stdout.split('\0'): the entries between the NULs, the one after the last
\* NUL too
RECURSIVE SplitNul(_, _)
SplitNul(bytes, entry) ==
    IF bytes = <<>> THEN <<entry>>
    ELSE IF Head(bytes) = StatusByte("NUL") THEN <<entry>> \o SplitNul(Tail(bytes), <<>>)
    ELSE SplitNul(Tail(bytes), Append(entry, Head(bytes)))

\* PathBuf::from(&path).join(file_path): the key of an entry of the result
StatusKey(path, file_path) == [repo |-> path, file |-> file_path]

\* the while loop over the entries from the i-th on: an entry shorter than 4
\* bytes is passed over, the entry after a rename or a copy too, and a path
\* reported twice keeps its later code
RECURSIVE StatusEntries(_, _, _, _)
StatusEntries(path, entries, i, result) ==
    IF i > Len(entries) THEN result
    ELSE IF Len(entries[i]) < 4 THEN StatusEntries(path, entries, i + 1, result)
    ELSE LET entry == entries[i]
             index_status == entry[1]
             wt_status == entry[2]
             file_path == SubSeq(entry, 4, Len(entry))
             renamed == index_status \in {StatusByte("R"), StatusByte("C")}
         IN StatusEntries(path, entries, IF renamed THEN i + 2 ELSE i + 1,
                          (StatusKey(path, file_path) :> status_code(index_status, wt_status))
                              @@ result)

\* what the git subprocess did: it did not start, it ended without success, or
\* it ended well and printed stdout
NotStarted == [started |-> FALSE, success |-> FALSE, stdout |-> <<>>]
Unsuccessful == [started |-> TRUE, success |-> FALSE, stdout |-> <<>>]
Printed(stdout) == [started |-> TRUE, success |-> TRUE, stdout |-> stdout]
\* the runs of git behind the commands that are looked at for their guard
GitRuns == {NotStarted, Unsuccessful}

\* get_git_status: validate_repo_path, git status in the directory, and the
\* map made of what it printed
get_git_status(p, run) ==
    /\ LET v == validate_repo_path(fs, project_root, p) IN
        fs_last' = DoneWith("get_git_status", p, run, v,
                            IF ~v.ok THEN v.err
                            ELSE IF ~run.started THEN "SubprocessFailure" ELSE "Ok",
                            IF v.ok /\ run.started /\ run.success
                            THEN StatusEntries(p, SplitNul(run.stdout, <<>>), 1, <<>>)
                            ELSE <<>>)
    /\ fs_before' = fs
    /\ UNCHANGED <<fs, project_root, fs_ops>>
    /\ UNCHANGED nonFsVars

(* ------------------ fs_commands.rs: the entry commands ------------------ *)
\* A project as the file explorer shows it: a folder d and a file a.txt in
\* /proj, a file s.txt outside, and possibly an a.txt in d already.
ProjectTree ==
    BaseTree @@ (<<"proj", "d">> :> Dir) @@ (<<"proj", "a.txt">> :> File("x"))
             @@ (<<"out", "s.txt">> :> File("y"))
ProjectTrees == {ProjectTree, Put(ProjectTree, <<"proj", "d", "a.txt">>, File("y"))}

\* the paths passed to the entry commands: the entries above, a name that is
\* not there, and a.txt named through d
EntryArgs ==
    {<<"proj">>, <<"proj", "d">>, <<"proj", "a.txt">>, <<"proj", "n.txt">>,
     <<"out", "s.txt">>, <<"proj", "d", "..", "a.txt">>}
EntryLists == UNION {[1..k -> EntryArgs] : k \in 0..MaxList}

\* a loop that looks at the first path only
ValidateFirst(f, root, paths) ==
    IF paths = <<>> THEN Accept(<<>>)
    ELSE IF ~validate_path(f, root, Head(paths)).ok THEN validate_path(f, root, Head(paths))
    ELSE Accept(<<>>)

\* for path in &paths { validate_path(path)? }: the first rejection, if any
RECURSIVE ValidateAll(_, _, _)
ValidateAll(f, root, paths) ==
    IF paths = <<>> THEN Accept(<<>>)
    ELSE IF ~validate_path(f, root, Head(paths)).ok THEN validate_path(f, root, Head(paths))
    ELSE ValidateAll(f, root, Tail(paths))

\* the entries at p and below it
Subtree(f, p) == {k \in DOMAIN f : StartsWith(k, p)}
Without(f, p) == [k \in DOMAIN f \ Subtree(f, p) |-> f[k]]
\* the subtree at s, put at d
Regraft(f, s, d) ==
    [k \in {d \o SubSeq(j, Len(s) + 1, Len(j)) : j \in Subtree(f, s)}
        |-> f[s \o SubSeq(k, Len(d) + 1, Len(k))]]

\* rename(2) on real paths: the entry s, with what is below it, becomes d; a
\* file replaces a file, a directory replaces an empty directory
fs_rename(f, s, d) ==
    IF s \notin DOMAIN f \/ s = <<>> \/ d = <<>> THEN FsResult(FALSE, f)
    ELSE IF Parent(d) \notin DOMAIN f \/ f[Parent(d)].kind # "dir" THEN FsResult(FALSE, f)
    ELSE IF s = d THEN FsResult(TRUE, f)
    ELSE IF StartsWith(d, s) THEN FsResult(FALSE, f)
    ELSE IF d \in DOMAIN f /\ f[s].kind = "dir"
            /\ (f[d].kind # "dir" \/ Subtree(f, d) # {d}) THEN FsResult(FALSE, f)
    ELSE IF d \in DOMAIN f /\ f[s].kind # "dir" /\ f[d].kind = "dir" THEN FsResult(FALSE, f)
    ELSE FsResult(TRUE, Regraft(f, s, d) @@ Without(Without(f, d), s))

\* move_entries, the second loop: the sources one after the other
RECURSIVE MoveEach(_, _, _)
MoveEach(f, sources, dest) ==
    IF sources = <<>> THEN [res |-> "Ok", fs |-> f]
    ELSE LET src_path == canonicalize(f, Head(sources))
             dst_path == Append(dest, Last(src_path.path))
         IN IF ~src_path.ok THEN [res |-> "InvalidSource", fs |-> f]
            ELSE IF StartsWith(dest, src_path.path) THEN [res |-> "MoveIntoSelf", fs |-> f]
            ELSE IF src_path.path = <<>> THEN [res |-> "InvalidSourceName", fs |-> f]
            ELSE IF src_path.path = dst_path THEN MoveEach(f, Tail(sources), dest)
            ELSE IF ~fs_rename(f, src_path.path, dst_path).ok THEN [res |-> "IoError", fs |-> f]
            ELSE MoveEach(fs_rename(f, src_path.path, dst_path).fs, Tail(sources), dest)

move_entries(sources, dest_dir) ==
    /\ fs_ops < MaxFsOps
    /\ fs_ops' = fs_ops + 1
    /\ LET v == ValidateAll(fs, project_root, Append(sources, dest_dir))
           dest == canonicalize(fs, dest_dir)
           moved == MoveEach(fs, sources, dest.path)
       IN IF ~v.ok THEN
              /\ fs' = fs
              /\ fs_last' = DoneWith("move_entries", dest_dir, sources, v, v.err, "")
          ELSE IF ~dest.ok THEN
              /\ fs' = fs
              /\ fs_last' = DoneWith("move_entries", dest_dir, sources, v, "InvalidDestination", "")
          ELSE IF ~is_dir(fs, dest.path) THEN
              /\ fs' = fs
              /\ fs_last' = DoneWith("move_entries", dest_dir, sources, v, "NotADirectory", "")
          ELSE
              /\ fs' = moved.fs
              /\ fs_last' = DoneWith("move_entries", dest_dir, sources, v, moved.res, "")
    /\ fs_before' = fs
    /\ UNCHANGED project_root
    /\ UNCHANGED nonFsVars

\* trash::delete: the entry the path names, a symlink itself and not what it
\* points to, leaves the tree with everything below it
trash_delete(f, p) ==
    LET w == Walk(f, <<>>, p, FALSE) IN
    IF w.st = "found" /\ w.path # <<>> THEN FsResult(TRUE, Without(f, w.path))
    ELSE FsResult(FALSE, f)

\* delete_entries, the second loop; trash_works: whether the desktop's trash
\* takes the entries
RECURSIVE DeleteEach(_, _, _)
DeleteEach(f, paths, trash_works) ==
    IF paths = <<>> THEN [res |-> "Ok", fs |-> f]
    ELSE IF ~exists(f, Head(paths)) THEN DeleteEach(f, Tail(paths), trash_works)
    ELSE IF ~trash_works \/ ~trash_delete(f, Head(paths)).ok
         THEN [res |-> "TrashFailed", fs |-> f]
    ELSE DeleteEach(trash_delete(f, Head(paths)).fs, Tail(paths), trash_works)

delete_entries(paths, trash_works) ==
    /\ fs_ops < MaxEntryOps
    /\ fs_ops' = fs_ops + 1
    /\ LET v == ValidateAll(fs, project_root, paths)
           deleted == DeleteEach(fs, paths, trash_works)
       IN IF ~v.ok THEN
              /\ fs' = fs
              /\ fs_last' = DoneWith("delete_entries", <<>>, paths, v, v.err, "")
          ELSE
              /\ fs' = deleted.fs
              /\ fs_last' = DoneWith("delete_entries", <<>>, paths, v, deleted.res, "")
    /\ fs_before' = fs
    /\ UNCHANGED project_root
    /\ UNCHANGED nonFsVars

(* ------------------ fs_commands.rs: copies and their names -------------- *)
MAX_COPY_DEPTH == 50
MaxCopies == 10000

\* the index of the last "." of a name, 0 when it has none
RECURSIVE LastDot(_, _)
LastDot(name, i) ==
    IF i = 0 THEN 0 ELSE IF SubSeq(name, i, i) = "." THEN i ELSE LastDot(name, i - 1)
\* Path::file_stem and Path::extension of a name: split at the last ".", unless
\* the name has none or only begins with one; ".." has neither
file_stem(name) ==
    IF name = ".." THEN ""
    ELSE IF LastDot(name, Len(name)) <= 1 THEN name
    ELSE SubSeq(name, 1, LastDot(name, Len(name)) - 1)
\* .map(|e| format!(".{}", e)).unwrap_or_default()
DotExtension(name) ==
    IF name = ".." \/ LastDot(name, Len(name)) <= 1 THEN ""
    ELSE SubSeq(name, LastDot(name, Len(name)), Len(name))

\* a name that carries the number from the first copy on
CopyNameNumbered(stem, ext, i) == stem \o " copy " \o ToString(i) \o ext
\* format!("{} copy{}", stem, ext) and format!("{} copy {}{}", stem, i, ext)
CopyName(stem, ext, i) ==
    IF i = 1 THEN stem \o " copy" \o ext ELSE stem \o " copy " \o ToString(i) \o ext

\* the loop over the candidates lo..hi in their order: the first i whose name
\* is free in dir, 0 when there is none. The candidates are gone through by
\* halves, the later half only when the earlier one has no free name, which
\* keeps the nesting of the evaluation small for MaxCopies candidates.
RECURSIVE FirstFreeIn(_, _, _, _, _, _)
FirstFreeIn(f, dir, stem, ext, lo, hi) ==
    IF lo > hi THEN 0
    ELSE IF lo = hi
        THEN IF ~exists(f, Append(dir, CopyName(stem, ext, lo))) THEN lo ELSE 0
    ELSE Only({IF early # 0 THEN early
               ELSE FirstFreeIn(f, dir, stem, ext, lo + (hi - lo) \div 2 + 1, hi) :
               early \in {FirstFreeIn(f, dir, stem, ext, lo, lo + (hi - lo) \div 2)}})
\* a loop that gives up one candidate early
FirstFreeShort(f, dir, stem, ext, i) == FirstFreeIn(f, dir, stem, ext, i, MaxCopies - 1)
\* the loop: the first i from start on whose name is free in dir; 0 when i
\* passes 10 000
FirstFree(f, dir, stem, ext, i) == FirstFreeIn(f, dir, stem, ext, i, MaxCopies)

\* fs::copy: the content of the file src resolves to, into the file dst
\* resolves to, made if it is not there
fs_copy(f, src, dst) ==
    LET from == Resolve(f, src) IN
    IF from.st = "found" /\ f[from.path].kind = "file"
    THEN fs_write(f, dst, f[from.path].content)
    ELSE FsResult(FALSE, f)

\* fs::read_dir: the names in the directory the path resolves to
read_dir(f, p) ==
    Only({{k[Len(k)] : k \in {j \in DOMAIN f : j # <<>> /\ Parent(j) = at}} :
            at \in {Resolve(f, p).path}})

\* copy_dir_recursive runs as the calls of copy_dir_recursive_inner run: s.fs
\* is the file system so far, s.stack the calls in progress, innermost first,
\* each with its src, dst, depth and todo, the names its loop has not come to
\* yet of those listed when it opened the directory. The order in which
\* read_dir hands out the names is the system's; the model takes them as
\* CHOOSE finds them. s.err tells the error of the depth check from the errors
\* of the system calls.
CopyFailed(s, err) == [s EXCEPT !.ok = FALSE, !.done = TRUE, !.err = err]

\* a call that lets the recursion go twice as deep
copy_dir_recursive_inner_deeper(s, src, dst, depth) ==
    IF depth > MAX_COPY_DEPTH + MAX_COPY_DEPTH THEN CopyFailed(s, "DepthExceeded")
    ELSE Only({IF ~made.ok \/ ~is_dir(made.fs, src)
                   THEN CopyFailed([s EXCEPT !.fs = made.fs], "CopyFailed")
               ELSE [s EXCEPT !.fs = made.fs,
                              !.stack = <<[src |-> src, dst |-> dst, depth |-> depth,
                                           todo |-> read_dir(made.fs, src)]>> \o s.stack] :
               made \in {create_dir_all(s.fs, dst)}})

\* a call of copy_dir_recursive_inner up to its loop
copy_dir_recursive_inner(s, src, dst, depth) ==
    IF depth > MAX_COPY_DEPTH THEN CopyFailed(s, "DepthExceeded")
    ELSE Only({IF ~made.ok \/ ~is_dir(made.fs, src)
                   THEN CopyFailed([s EXCEPT !.fs = made.fs], "CopyFailed")
               ELSE [s EXCEPT !.fs = made.fs,
                              !.stack = <<[src |-> src, dst |-> dst, depth |-> depth,
                                           todo |-> read_dir(made.fs, src)]>> \o s.stack] :
               made \in {create_dir_all(s.fs, dst)}})

\* one turn of the loop of the innermost call, or its return
CopyEntries(s) ==
    LET call == Head(s.stack)
        name == CHOOSE n \in call.todo : TRUE
        src_path == Append(call.src, name)
        dst_path == Append(call.dst, name)
        is_symlink == /\ Walk(s.fs, <<>>, src_path, FALSE).st = "found"
                      /\ s.fs[Walk(s.fs, <<>>, src_path, FALSE).path].kind = "link"
        next == [s EXCEPT !.stack = <<[call EXCEPT !.todo = call.todo \ {name}]>>
                                    \o Tail(s.stack)]
        copied == fs_copy(s.fs, src_path, dst_path)
    IN IF call.todo = {}
           THEN [s EXCEPT !.stack = Tail(s.stack), !.done = (Tail(s.stack) = <<>>)]
       ELSE IF is_symlink THEN next
       ELSE IF is_dir(s.fs, src_path)
           THEN copy_dir_recursive_inner(next, src_path, dst_path, call.depth + 1)
       ELSE IF ~copied.ok THEN CopyFailed(next, "CopyFailed")
       ELSE [next EXCEPT !.fs = copied.fs]

\* n turns from s on, or as many as it takes to be done
RECURSIVE CopySteps(_, _)
CopySteps(s, n) ==
    IF s.done THEN s
    ELSE IF n <= 1 THEN CopyEntries(s)
    ELSE Only({CopySteps(half, n - (n \div 2)) : half \in {CopySteps(s, n \div 2)}})

\* the result carries the error too; "Unfinished" is a copy still at work
\* after MaxCopySteps turns
copy_dir_recursive(f, src, dst) ==
    Only({[ok |-> s.done /\ s.ok, fs |-> s.fs,
           err |-> IF ~s.done THEN "Unfinished" ELSE s.err] :
            s \in {Only({CopySteps(entered, MaxCopySteps) :
                            entered \in {copy_dir_recursive_inner(
                                            [fs |-> f, stack |-> <<>>, ok |-> TRUE,
                                             done |-> FALSE, err |-> ""], src, dst, 0)}})}})

duplicate_entry(p) ==
    /\ fs_ops < MaxEntryOps
    /\ fs_ops' = fs_ops + 1
    /\ LET v == validate_path(fs, project_root, p)
           stem == file_stem(Last(p))
           ext == IF is_dir(fs, p) THEN "" ELSE DotExtension(Last(p))
       IN IF ~v.ok THEN
              /\ fs' = fs
              /\ fs_last' = Done("duplicate_entry", p, v, v.err, "")
          ELSE IF ~exists(fs, p) THEN
              /\ fs' = fs
              /\ fs_last' = Done("duplicate_entry", p, v, "NotFound", "")
          ELSE IF p = <<>> THEN
              /\ fs' = fs
              /\ fs_last' = Done("duplicate_entry", p, v, "NoParent", "")
          ELSE \E i \in {FirstFree(fs, Parent(p), stem, ext, 1)} :
              IF i = 0 THEN
                  /\ fs' = fs
                  /\ fs_last' = Done("duplicate_entry", p, v, "TooManyCopies", "")
              ELSE \E copied \in {IF is_dir(fs, p)
                                   THEN copy_dir_recursive(
                                            fs, p, Append(Parent(p), CopyName(stem, ext, i)))
                                   ELSE fs_copy(fs, p,
                                                Append(Parent(p), CopyName(stem, ext, i)))} :
                  /\ fs' = copied.fs
                  /\ fs_last' = Done("duplicate_entry", p, v,
                                     IF copied.ok THEN "Ok"
                                     ELSE IF is_dir(fs, p) THEN copied.err ELSE "IoError", "")
    /\ fs_before' = fs
    /\ UNCHANGED project_root
    /\ UNCHANGED nonFsVars

(* ------------------ fs_commands.rs: read_dir_tree ----------------------- *)
DEPTH_CAP == 50
DEFAULT_DEPTH == 1

\* str::to_lowercase and the order of str::cmp, on the characters of the names
\* of this model
UpperLetters == "ABCDEFGHIJKLMNOPQRSTUVWXYZ"
OrderedChars == " .0123456789abcdefghijklmnopqrstuvwxyz"
IndexIn(chars, c) ==
    IF \E i \in 1..Len(chars) : SubSeq(chars, i, i) = c
    THEN CHOOSE i \in 1..Len(chars) : SubSeq(chars, i, i) = c ELSE 0
RECURSIVE to_lowercase(_)
to_lowercase(name) ==
    IF name = "" THEN ""
    ELSE LET c == SubSeq(name, 1, 1)
             u == IndexIn(UpperLetters, c)
         IN (IF u = 0 THEN c ELSE SubSeq(OrderedChars, u + 12, u + 12))
                \o to_lowercase(SubSeq(name, 2, Len(name)))
RECURSIVE StrLess(_, _)
StrLess(a, b) ==
    IF b = "" THEN FALSE
    ELSE IF a = "" THEN TRUE
    ELSE LET x == IndexIn(OrderedChars, SubSeq(a, 1, 1))
             y == IndexIn(OrderedChars, SubSeq(b, 1, 1))
         IN IF x # y THEN x < y
            ELSE StrLess(SubSeq(a, 2, Len(a)), SubSeq(b, 2, Len(b)))

\* result.sort_by: directories first, then by lowercased name
EntryBefore(a, b) ==
    \/ a.is_dir /\ ~b.is_dir
    \/ a.is_dir = b.is_dir /\ StrLess(to_lowercase(a.name), to_lowercase(b.name))
RECURSIVE SortEntries(_)
SortEntries(entries) ==
    IF entries = {} THEN <<>>
    ELSE LET first == CHOOSE e \in entries : \A o \in entries : ~EntryBefore(o, e)
         IN <<first>> \o SortEntries(entries \ {first})

\* children: Option<Vec<FileEntry>>
NoChildren == [some |-> FALSE, list |-> <<>>]
SomeChildren(list) == [some |-> TRUE, list |-> list]

\* the names read_dir_recursive keeps: not .git, no symlink
Listed(f, p) ==
    {n \in read_dir(f, p) : n # ".git" /\ f[Append(Resolve(f, p).path, n)].kind # "link"}

\* read_dir_recursive on a directory that can be read; a directory below that
\* cannot is listed as empty (unwrap_or_default). The order of the entries
\* depends on their names and kinds only, so it is settled before the children
\* are read. The calls are worked out from the deepest ones up: below holds,
\* for every directory one level down, what the call on it returns.
read_dir_call(f, path, current_depth, max_depth, below) ==
    LET order == SortEntries({[name |-> n, is_dir |-> is_dir(f, Append(path, n))] :
                                n \in Listed(f, path)})
    IN [i \in 1..Len(order) |->
            [name |-> order[i].name,
             path |-> Append(path, order[i].name),
             is_dir |-> order[i].is_dir,
             children |->
                 IF order[i].is_dir /\ current_depth < max_depth
                 THEN SomeChildren(below[Append(path, order[i].name)])
                 ELSE IF order[i].is_dir THEN SomeChildren(<<>>)
                 ELSE NoChildren]]

\* the directories the calls one level down are made on
SubDirs(f, dirs) ==
    UNION {{Append(q, n) : n \in {m \in Listed(f, q) : is_dir(f, Append(q, m))}} : q \in dirs}
\* levels[k] is the set of directories the calls at depth current_depth + k - 1
\* are made on; n more levels
RECURSIVE CallLevels(_, _, _)
CallLevels(f, levels, n) ==
    IF n <= 0 THEN levels
    ELSE IF n = 1 THEN Append(levels, SubDirs(f, levels[Len(levels)]))
    ELSE Only({CallLevels(f, half, n - (n \div 2)) : half \in {CallLevels(f, levels, n \div 2)}})
\* the calls of the n deepest levels not yet worked out; s.k is the deepest
\* such level, s.below what the calls one level further down return, a value
\* worked out in full (r = r) before the level above it is begun
RECURSIVE CallsUp(_, _, _, _, _, _)
CallsUp(f, levels, current_depth, max_depth, s, n) ==
    IF n <= 0 THEN s
    ELSE IF n = 1
         THEN Only({[k |-> s.k - 1, below |-> returned] :
                        returned \in {r \in {[q \in levels[s.k] |->
                                                read_dir_call(f, q, current_depth + s.k - 1,
                                                              max_depth, s.below)]} : r = r}})
    ELSE Only({CallsUp(f, levels, current_depth, max_depth, half, n - (n \div 2)) :
                    half \in {CallsUp(f, levels, current_depth, max_depth, s, n \div 2)}})

read_dir_recursive(f, path, current_depth, max_depth) ==
    Only({CallsUp(f, levels, current_depth, max_depth,
                  [k |-> Len(levels), below |-> <<>>], Len(levels)).below[path] :
            levels \in {CallLevels(f, <<{path}>>, max_depth - current_depth)}})

Min(a, b) == IF a < b THEN a ELSE b
\* depth.unwrap_or(1) with no cap
UncappedDepth(depth) == IF depth.some THEN depth.d ELSE DEFAULT_DEPTH
\* depth.unwrap_or(1).min(50)
MaxDepthOf(depth) == Min(IF depth.some THEN depth.d ELSE DEFAULT_DEPTH, DEPTH_CAP)

read_dir_tree(p, depth) ==
    /\ LET v == validate_path(fs, project_root, p) IN
       fs_last' = DoneWith("read_dir_tree", p, depth, v,
                           IF ~v.ok THEN v.err ELSE IF is_dir(fs, p) THEN "Ok" ELSE "IoError",
                           IF v.ok /\ is_dir(fs, p)
                           THEN read_dir_recursive(fs, p, 0, MaxDepthOf(depth)) ELSE <<>>)
    /\ fs_before' = fs
    /\ UNCHANGED <<fs, project_root, fs_ops>>
    /\ UNCHANGED nonFsVars

\* the trees read_dir_tree is asked about: a project four levels deep with a
\* .git directory and a symlink to a directory, and a chain of directories
\* deeper than the cap
Chain(n) == [i \in 1..n |-> "c"]
ChainLength == DEPTH_CAP + 3
DeepTree == BaseTree @@ [k \in {<<"proj">> \o Chain(n) : n \in 1..ChainLength} |-> Dir]
WideTree ==
    BaseTree @@ (<<"proj", "a.txt">> :> File("x")) @@ (<<"proj", "B.txt">> :> File("x"))
             @@ (<<"proj", "d">> :> Dir) @@ (<<"proj", "d", "b.txt">> :> File("x"))
             @@ (<<"proj", "d", "e">> :> Dir) @@ (<<"proj", "d", "e", "c.txt">> :> File("x"))
             @@ (<<"proj", "d", "e", "g">> :> Dir)
             @@ (<<"proj", "d", "e", "g", "h.txt">> :> File("x"))
             @@ (<<"proj", ".git">> :> Dir) @@ (<<"proj", ".git", "HEAD">> :> File("x"))
             @@ (<<"proj", "l">> :> Link(<<"out">>)) @@ (<<"out", "s.txt">> :> File("y"))
TreeArgs == {<<"proj">>, <<"proj", "d">>, <<"proj", "a.txt">>, <<"out">>}
NoDepth == [some |-> FALSE, d |-> 0]
DepthArgs ==
    {NoDepth} \cup {[some |-> TRUE, d |-> n] : n \in (0..MaxDepthArg) \cup {49, 50, 51, 60}}

(* ------------- fs_commands.rs: paste_entries, import_external_files ----- *)
\* src_str.contains("/.ssh") and the like: a component that starts so
SensitiveNames == {".ssh", ".gnupg", ".aws"}
Sensitive(path) ==
    \E i \in DOMAIN path, n \in SensitiveNames :
        Len(path[i]) >= Len(n) /\ SubSeq(path[i], 1, Len(n)) = n

\* the loop of paste_entries and, with external, of import_external_files,
\* which looks at each source before it copies it; k: the place of Head(sources)
\* in the list. at: the source at which the loop stopped, 0 if at none
RECURSIVE CopyEach(_, _, _, _, _)
CopyEach(f, sources, dest, external, k) ==
    IF sources = <<>> THEN [res |-> "Ok", fs |-> f, at |-> 0]
    ELSE LET src_path == Head(sources)
             file_name == Last(src_path)
             stem == file_stem(file_name)
             ext == DotExtension(file_name)
             plain == Append(dest, file_name)
         IN IF external /\ ~exists(f, src_path)
                THEN [res |-> "SourceMissing", fs |-> f, at |-> k]
            ELSE IF external /\ Sensitive(canonicalize(f, src_path).path)
                THEN [res |-> "SensitiveSource", fs |-> f, at |-> k]
            ELSE IF src_path = <<>> \/ file_name = ".."
                THEN [res |-> "InvalidSourceName", fs |-> f, at |-> k]
            ELSE Only({
                IF i = 0 THEN [res |-> "TooManyCopies", fs |-> f, at |-> k]
                ELSE Only({IF ~c.ok
                               THEN [res |-> IF is_dir(f, src_path) THEN c.err
                                             ELSE "CopyFailed",
                                     fs |-> c.fs, at |-> k]
                           ELSE CopyEach(c.fs, Tail(sources), dest, external, k + 1) :
                           c \in {Only({IF is_dir(f, src_path)
                                            THEN copy_dir_recursive(f, src_path, target)
                                        ELSE fs_copy(f, src_path, target) :
                                        target \in {IF i = -1 THEN plain
                                                    ELSE Append(dest,
                                                                CopyName(stem, ext, i))}})}}) :
                \* -1: the target is free and the loop is not entered
                i \in {IF exists(f, plain) THEN FirstFree(f, dest, stem, ext, 1) ELSE -1}})

\* the sources pasted and imported: a directory, a file, a name that is not
\* there, a file outside the project; and the directories they are copied into
PasteSources ==
    {<<"proj", "d">>, <<"proj", "a.txt">>, <<"proj", "n.txt">>, <<"out", "s.txt">>}
PasteLists == UNION {[1..k -> PasteSources] : k \in 0..MaxList}
PasteDests == {<<"proj">>, <<"proj", "d">>}

paste_entries(sources, dest_dir) ==
    /\ fs_ops < MaxFsOps
    /\ fs_ops' = fs_ops + 1
    /\ LET v == ValidateAll(fs, project_root, Append(sources, dest_dir))
       IN IF ~v.ok THEN
              /\ fs' = fs
              /\ fs_last' = DoneWith("paste_entries", dest_dir, sources, v, v.err, 0)
          ELSE IF ~is_dir(fs, dest_dir) THEN
              /\ fs' = fs
              /\ fs_last' = DoneWith("paste_entries", dest_dir, sources, v, "NotADirectory", 0)
          ELSE \E pasted \in {CopyEach(fs, sources, dest_dir, FALSE, 1)} :
              /\ fs' = pasted.fs
              /\ fs_last' = DoneWith("paste_entries", dest_dir, sources, v, pasted.res, pasted.at)
    /\ fs_before' = fs
    /\ UNCHANGED project_root
    /\ UNCHANGED nonFsVars

import_external_files(sources, dest_dir) ==
    /\ fs_ops < MaxFsOps
    /\ fs_ops' = fs_ops + 1
    /\ LET v == validate_path(fs, project_root, dest_dir)
       IN IF ~v.ok THEN
              /\ fs' = fs
              /\ fs_last' = DoneWith("import_external_files", dest_dir, sources, v, v.err, 0)
          ELSE IF ~is_dir(fs, dest_dir) THEN
              /\ fs' = fs
              /\ fs_last' = DoneWith("import_external_files", dest_dir, sources, v,
                                     "NotADirectory", 0)
          ELSE \E imported \in {CopyEach(fs, sources, dest_dir, TRUE, 1)} :
              /\ fs' = imported.fs
              /\ fs_last' = DoneWith("import_external_files", dest_dir, sources, v,
                                     imported.res, imported.at)
    /\ fs_before' = fs
    /\ UNCHANGED project_root
    /\ UNCHANGED nonFsVars

(* ------------------ fs_commands.rs: the VCS commands -------------------- *)
\* the bytes of a file path: a letter, ".", "/", "\", ":" and NUL
FileBytes == {97, 46, 47, 92, 58, 0}
FilePaths == UNION {[1..k -> FileBytes] : k \in 0..MaxFileLen}
\* the file paths handed to the commands that write: a, .., /a, a NUL, a:
SomeFiles == {<<97>>, <<46, 46>>, <<47, 97>>, <<97, 0>>, <<97, 58>>}
\* the file paths handed over in lists: a, .., a:
ListFiles == {<<97>>, <<46, 46>>, <<97, 58>>}
FileLists == UNION {[1..k -> ListFiles] : k \in 0..MaxList}
\* what a resolved or restored file holds
GitContents == {"x"}
RepoArgs == {<<"proj">>, <<"out">>}

\* str::contains for a pattern of bytes
Contains(file_path, pattern) ==
    \E i \in 0..(Len(file_path) - Len(pattern)) :
        SubSeq(file_path, i + 1, i + Len(pattern)) = pattern

\* a check that forgets the drive letter
validate_git_file_path_no_drive(file_path) ==
    IF Contains(file_path, <<46, 46>>) THEN "Traversal"
    ELSE IF file_path # <<>> /\ file_path[1] \in {47, 92} THEN "Absolute"
    ELSE IF Contains(file_path, <<0>>) THEN "NulByte"
    ELSE "Ok"

validate_git_file_path(file_path) ==
    IF Contains(file_path, <<46, 46>>) THEN "Traversal"
    ELSE IF file_path # <<>> /\ file_path[1] \in {47, 92} THEN "Absolute"
    ELSE IF Len(file_path) >= 2 /\ file_path[2] = 58 THEN "Absolute"
    ELSE IF Contains(file_path, <<0>>) THEN "NulByte"
    ELSE "Ok"

\* for p in &paths { validate_git_file_path(p)? }: the first rejection, if any
RECURSIVE ValidateFiles(_)
ValidateFiles(paths) ==
    IF paths = <<>> THEN "Ok"
    ELSE IF validate_git_file_path(Head(paths)) # "Ok" THEN validate_git_file_path(Head(paths))
    ELSE ValidateFiles(Tail(paths))

\* Path::join of a relative file path: its components, "/" apart, without the
\* empty ones and "."
ByteChar(b) ==
    CASE b = 97 -> "a" [] b = 46 -> "." [] b = 58 -> ":" [] b = 92 -> "\\" [] OTHER -> "?"
RECURSIVE Components(_, _)
Components(bytes, name) ==
    IF bytes = <<>> THEN (IF name \in {"", "."} THEN <<>> ELSE <<name>>)
    ELSE IF Head(bytes) = 47
         THEN (IF name \in {"", "."} THEN <<>> ELSE <<name>>) \o Components(Tail(bytes), "")
    ELSE Components(Tail(bytes), name \o ByteChar(Head(bytes)))
Join(dir, file_path) == dir \o Components(file_path, "")
\* the path names a directory: it is empty, or ends in "/" or in a "." component
NamesDirectory(file_path) ==
    \/ file_path = <<>>
    \/ file_path[Len(file_path)] = 47
    \/ file_path = <<46>>
    \/ Len(file_path) >= 2 /\ SubSeq(file_path, Len(file_path) - 1, Len(file_path)) = <<47, 46>>

\* what the git subprocess may answer once started
GitOutcomes == {"Ok", "SubprocessFailure"}
\* the record of a VCS command holds in arg the file paths it was given and in
\* out the subprocesses it started

\* git_diff_line_ranges up to the subprocess; the diff it parses is git's
git_diff_line_ranges(repo_path, file_path) ==
    /\ LET v == validate_repo_path(fs, project_root, repo_path)
           checked == validate_git_file_path(file_path)
       IN fs_last' =
            IF ~v.ok THEN DoneWith("git_diff_line_ranges", repo_path, <<file_path>>, v, v.err, <<>>)
            ELSE IF checked # "Ok"
                 THEN DoneWith("git_diff_line_ranges", repo_path, <<file_path>>, v, checked, <<>>)
            ELSE DoneWith("git_diff_line_ranges", repo_path, <<file_path>>, v, "Ok", <<"diff">>)
    /\ fs_before' = fs
    /\ UNCHANGED <<fs, project_root, fs_ops>>
    /\ UNCHANGED nonFsVars

git_stage(repo_path, paths, git) ==
    /\ LET v == validate_repo_path(fs, project_root, repo_path)
           checked == ValidateFiles(paths)
       IN fs_last' =
            IF ~v.ok THEN DoneWith("git_stage", repo_path, paths, v, v.err, <<>>)
            ELSE IF checked # "Ok" THEN DoneWith("git_stage", repo_path, paths, v, checked, <<>>)
            ELSE DoneWith("git_stage", repo_path, paths, v, git, <<"add">>)
    /\ fs_before' = fs
    /\ UNCHANGED <<fs, project_root, fs_ops>>
    /\ UNCHANGED nonFsVars

\* git_diff up to its subprocesses; answer: whether git status reports the file
\* as untracked when the caller did not say
git_diff(repo_path, file_path, staged, is_untracked, answer) ==
    /\ LET v == validate_repo_path(fs, project_root, repo_path)
           checked == validate_git_file_path(file_path)
           untracked == IF is_untracked = "none" THEN answer ELSE is_untracked = "true"
           diff == IF untracked THEN "diff --no-index"
                   ELSE IF staged THEN "diff --cached" ELSE "diff"
       IN fs_last' =
            IF ~v.ok THEN DoneWith("git_diff", repo_path, <<file_path>>, v, v.err, <<>>)
            ELSE IF checked # "Ok"
                 THEN DoneWith("git_diff", repo_path, <<file_path>>, v, checked, <<>>)
            ELSE DoneWith("git_diff", repo_path, <<file_path>>, v, "Ok",
                         IF is_untracked = "none" THEN <<"status", diff>> ELSE <<diff>>)
    /\ fs_before' = fs
    /\ UNCHANGED <<fs, project_root, fs_ops>>
    /\ UNCHANGED nonFsVars

git_unstage(repo_path, paths, git) ==
    /\ LET v == validate_repo_path(fs, project_root, repo_path)
           checked == ValidateFiles(paths)
       IN fs_last' =
            IF ~v.ok THEN DoneWith("git_unstage", repo_path, paths, v, v.err, <<>>)
            ELSE IF checked # "Ok" THEN DoneWith("git_unstage", repo_path, paths, v, checked, <<>>)
            ELSE DoneWith("git_unstage", repo_path, paths, v, git, <<"restore --staged">>)
    /\ fs_before' = fs
    /\ UNCHANGED <<fs, project_root, fs_ops>>
    /\ UNCHANGED nonFsVars

\* git checkout -- tracked...: git rewrites each file it can from the index,
\* content: what the index holds
RECURSIVE Checkout(_, _, _, _)
Checkout(f, dir, files, content) ==
    IF files = <<>> THEN f
    ELSE IF NamesDirectory(Head(files)) THEN Checkout(f, dir, Tail(files), content)
    ELSE Checkout(fs_write(f, Join(dir, Head(files)), content).fs, dir, Tail(files), content)

\* git_discard, the loop over the untracked files
RECURSIVE DiscardEach(_, _, _, _, _)
DiscardEach(f, root, repo_path, files, trash_works) ==
    IF files = <<>> THEN [res |-> "Ok", fs |-> f]
    ELSE IF ~exists(f, Join(repo_path, Head(files)))
         THEN DiscardEach(f, root, repo_path, Tail(files), trash_works)
    ELSE IF ~StartsWith(canonicalize(f, Join(repo_path, Head(files))).path, root)
         THEN [res |-> "AccessDenied", fs |-> f]
    ELSE IF ~trash_works
            \/ ~trash_delete(f, canonicalize(f, Join(repo_path, Head(files))).path).ok
         THEN [res |-> "TrashFailed", fs |-> f]
    ELSE DiscardEach(trash_delete(f, canonicalize(f, Join(repo_path, Head(files))).path).fs,
                     root, repo_path, Tail(files), trash_works)

\* what git status may report of a requested file
StatusClasses == {"clean", "tracked", "untracked"}

git_discard(repo_path, paths) ==
    /\ fs_ops < MaxFsOps
    /\ fs_ops' = fs_ops + 1
    /\ fs_before' = fs
    /\ UNCHANGED project_root
    /\ UNCHANGED nonFsVars
    /\ LET v == validate_repo_path(fs, project_root, repo_path)
           checked == ValidateFiles(paths)
       IN IF ~v.ok THEN
              /\ fs' = fs
              /\ fs_last' = DoneWith("git_discard", repo_path, paths, v, v.err, <<>>)
          ELSE IF checked # "Ok" THEN
              /\ fs' = fs
              /\ fs_last' = DoneWith("git_discard", repo_path, paths, v, checked, <<>>)
          ELSE \E status \in GitOutcomes, class \in [Range(paths) -> StatusClasses],
                  checkout \in GitOutcomes, content \in GitContents, trash_works \in BOOLEAN :
              LET tracked == SelectSeq(paths, LAMBDA file : class[file] = "tracked")
                  untracked == SelectSeq(paths, LAMBDA file : class[file] = "untracked")
                  restored == IF tracked # <<>> /\ checkout = "Ok"
                              THEN Checkout(fs, repo_path, tracked, content) ELSE fs
                  discarded == DiscardEach(restored, project_root.path, repo_path, untracked,
                                           trash_works)
                  started == IF tracked # <<>> THEN <<"status", "checkout">> ELSE <<"status">>
              IN IF status # "Ok" THEN
                     /\ fs' = fs
                     /\ fs_last' = DoneWith("git_discard", repo_path, paths, v, status, <<"status">>)
                 ELSE IF tracked # <<>> /\ checkout # "Ok" THEN
                     /\ fs' = fs
                     /\ fs_last' = DoneWith("git_discard", repo_path, paths, v, checkout, started)
                 ELSE IF untracked # <<>> /\ ~project_root.some THEN
                     /\ fs' = restored
                     /\ fs_last' = DoneWith("git_discard", repo_path, paths, v, "NoProjectOpen",
                                           started)
                 ELSE
                     /\ fs' = discarded.fs
                     /\ fs_last' = DoneWith("git_discard", repo_path, paths, v, discarded.res,
                                           started)

git_resolve_conflict(repo_path, file_path, content, stage, git) ==
    /\ fs_ops < MaxFsOps
    /\ fs_ops' = fs_ops + 1
    /\ LET v == validate_repo_path(fs, project_root, repo_path)
           checked == validate_git_file_path(file_path)
           abs_path == Join(v.path, file_path)
           written == IF NamesDirectory(file_path) THEN FsResult(FALSE, fs)
                      ELSE fs_write(fs, abs_path, content)
       IN IF ~v.ok THEN
              /\ fs' = fs
              /\ fs_last' = DoneWith("git_resolve_conflict", repo_path, <<file_path>>, v, v.err, <<>>)
          ELSE IF checked # "Ok" THEN
              /\ fs' = fs
              /\ fs_last' = DoneWith("git_resolve_conflict", repo_path, <<file_path>>, v, checked, <<>>)
          ELSE IF ~StartsWith(abs_path, v.path) THEN
              /\ fs' = fs
              /\ fs_last' = DoneWith("git_resolve_conflict", repo_path, <<file_path>>, v,
                                    "AccessDenied", <<>>)
          ELSE IF ~written.ok THEN
              /\ fs' = fs
              /\ fs_last' = DoneWith("git_resolve_conflict", repo_path, <<file_path>>, v,
                                    "IoError", <<>>)
          ELSE
              /\ fs' = written.fs
              /\ fs_last' = DoneWith("git_resolve_conflict", repo_path, <<file_path>>, v,
                                    IF stage THEN git ELSE "Ok",
                                    IF stage THEN <<"add">> ELSE <<>>)
    /\ fs_before' = fs
    /\ UNCHANGED project_root
    /\ UNCHANGED nonFsVars

(* --------------------------- specifications ---------------------------- *)
\* TerminalManager::new and create_terminal_state: an empty table, next_id 1;
\* the byte-level reader is about to enter its loop with an empty pending;
\* create_project_root_state: no project root
Init ==
    /\ sessions = <<>>
    /\ next_id = 1
    /\ calls = <<>>
    /\ readers = <<>>
    /\ emitted = {}
    /\ killed = {}
    /\ retired = {}
    /\ last = NoCall
    /\ rd_state = "running"
    /\ rd_pending = <<>>
    /\ rd_all = <<>>
    /\ rd_chunks = <<>>
    /\ fs = BaseTree
    /\ project_root = NoRoot
    /\ fs_before = BaseTree
    /\ fs_last = NoFsCall
    /\ fs_ops = 0
    /\ mutex = 0
    /\ threads = <<>>
    /\ stalled = {}
    /\ pty_in = <<>>

\* the same, on any of the filesystems the user may have prepared
InitFs ==
    /\ sessions = <<>>
    /\ next_id = 1
    /\ calls = <<>>
    /\ readers = <<>>
    /\ emitted = {}
    /\ killed = {}
    /\ retired = {}
    /\ last = NoCall
    /\ rd_state = "running"
    /\ rd_pending = <<>>
    /\ rd_all = <<>>
    /\ rd_chunks = <<>>
    /\ fs \in {BaseTree} \cup {Put(BaseTree, <<"proj", "l">>, Link(t)) : t \in LinkTargets}
    /\ project_root = NoRoot
    /\ fs_before = fs
    /\ fs_last = NoFsCall
    /\ fs_ops = 0
    /\ mutex = 0
    /\ threads = <<>>
    /\ stalled = {}
    /\ pty_in = <<>>

NextFs ==
    \/ \E p \in PathArgs : set_project_root(p)
    \/ \E p \in PathArgs : read_file_content(p)
    \/ \E p \in PathArgs, c \in WriteContents : write_file_content(p, c)
    \/ \E p \in PathArgs : create_file(p)
    \/ \E p \in PathArgs : create_folder(p)
    \/ \E p \in PathArgs, run \in GitRuns : get_git_status(p, run)

SpecFs == InitFs /\ [][NextFs]_vars

\* the commands that leave the filesystem alone: the two guards on their own
NextGuard ==
    \/ \E p \in PathArgs : set_project_root(p)
    \/ \E p \in PathArgs : read_file_content(p)
    \/ \E p \in PathArgs, run \in GitRuns : get_git_status(p, run)

SpecGuard == InitFs /\ [][NextGuard]_vars

\* the guard on paths that may not exist, absolute and relative
AncestorArgs == PathArgs \cup {<<Cwd>> \o p : p \in PathArgs}

NextAncestor ==
    \/ \E p \in AncestorArgs : set_project_root(p)
    \/ \E p \in AncestorArgs : read_file_content(p)

SpecAncestor == InitFs /\ [][NextAncestor]_vars

\* the project of the entry commands, before a root is set
InitEntries ==
    /\ sessions = <<>>
    /\ next_id = 1
    /\ calls = <<>>
    /\ readers = <<>>
    /\ emitted = {}
    /\ killed = {}
    /\ retired = {}
    /\ last = NoCall
    /\ rd_state = "running"
    /\ rd_pending = <<>>
    /\ rd_all = <<>>
    /\ rd_chunks = <<>>
    /\ fs \in ProjectTrees
    /\ project_root = NoRoot
    /\ fs_before = fs
    /\ fs_last = NoFsCall
    /\ fs_ops = 0
    /\ mutex = 0
    /\ threads = <<>>
    /\ stalled = {}
    /\ pty_in = <<>>

NextMove ==
    \/ \E p \in EntryArgs : set_project_root(p)
    \/ \E sources \in EntryLists, dest \in EntryArgs : move_entries(sources, dest)

SpecMove == InitEntries /\ [][NextMove]_vars

NextDelete ==
    \/ \E p \in EntryArgs : set_project_root(p)
    \/ \E paths \in EntryLists, trash_works \in BOOLEAN : delete_entries(paths, trash_works)

SpecDelete == InitEntries /\ [][NextDelete]_vars

NextDuplicate ==
    \/ \E p \in EntryArgs : set_project_root(p)
    \/ \E p \in EntryArgs : duplicate_entry(p)

SpecDuplicate == InitEntries /\ [][NextDuplicate]_vars

\* the trees of read_dir_tree, before a root is set
InitTree ==
    /\ sessions = <<>>
    /\ next_id = 1
    /\ calls = <<>>
    /\ readers = <<>>
    /\ emitted = {}
    /\ killed = {}
    /\ retired = {}
    /\ last = NoCall
    /\ rd_state = "running"
    /\ rd_pending = <<>>
    /\ rd_all = <<>>
    /\ rd_chunks = <<>>
    /\ fs \in {WideTree, DeepTree}
    /\ project_root = NoRoot
    /\ fs_before = fs
    /\ fs_last = NoFsCall
    /\ fs_ops = 0
    /\ mutex = 0
    /\ threads = <<>>
    /\ stalled = {}
    /\ pty_in = <<>>

NextTree ==
    \/ \E p \in TreeArgs : set_project_root(p)
    \/ \E p \in TreeArgs, depth \in DepthArgs : read_dir_tree(p, depth)

SpecTree == InitTree /\ [][NextTree]_vars

Threads == 1..MaxCalls

NextLock ==
    \/ \E op \in Commands, id \in Ids : invoke(op, id)
    \/ \E t \in Threads : lock(t)
    \/ \E t \in Threads : spawn_insert(t)
    \/ \E t \in Threads : spawn_return(t)
    \/ \E t \in Threads : get_session(t)
    \/ \E t \in Threads : pty_write_some(t)
    \/ \E t \in Threads : pty_write(t)
    \/ \E t \in Threads : pty_resize(t)
    \/ \E t \in Threads : kill_remove(t)
    \/ \E id \in Ids : child_stalls(id)
    \/ \E id \in Ids : child_reads(id)

SpecLock == Init /\ [][NextLock]_vars

\* the commands, failing ones too, with the reader threads beside them
NextSession ==
    \/ \E op \in Commands, id \in Ids : Len(threads) < MaxRacing /\ invoke(op, id)
    \/ \E step \in SpawnSteps : Len(threads) < MaxRacing /\ spawn_fails(step)
    \/ \E t \in Threads : lock(t)
    \/ \E t \in Threads : lock_fails(t)
    \/ \E t \in Threads : spawn_insert(t)
    \/ \E t \in Threads : spawn_return(t)
    \/ \E t \in Threads : get_session(t)
    \/ \E t \in Threads : pty_write_some(t)
    \/ \E t \in Threads : pty_write(t)
    \/ \E t \in Threads : pty_resize(t)
    \/ \E t \in Threads : kill_remove(t)
    \/ \E id \in Ids : child_stalls(id)
    \/ \E id \in Ids : child_reads(id)
    \/ \E t \in Threads : reader_emit(t)
    \/ \E t \in Threads : reader_exit(t)

SpecSession == Init /\ [][NextSession]_vars

\* every command above that validates a path, on a file that is there and a
\* name that is not
GateArgs == {<<"proj", "a.txt">>, <<"proj", "n.txt">>}
GateLists == UNION {[1..k -> {<<"proj", "a.txt">>}] : k \in 0..MaxList}
GateFiles == UNION {[1..k -> {<<97>>}] : k \in 0..1}

NextGate ==
    \/ \E p \in {<<"proj">>, <<"proj", "n.txt">>} : set_project_root(p)
    \/ \E p \in GateArgs : read_file_content(p)
    \/ \E p \in GateArgs, c \in GitContents : write_file_content(p, c)
    \/ \E p \in GateArgs : create_file(p)
    \/ \E p \in GateArgs : create_folder(p)
    \/ \E p \in GateArgs, depth \in {NoDepth} : read_dir_tree(p, depth)
    \/ \E paths \in GateLists, dest \in GateArgs : move_entries(paths, dest)
    \/ \E paths \in GateLists, trash_works \in BOOLEAN : delete_entries(paths, trash_works)
    \/ \E p \in GateArgs : duplicate_entry(p)
    \/ \E paths \in GateLists, dest \in GateArgs : paste_entries(paths, dest)
    \/ \E paths \in GateLists, dest \in GateArgs : import_external_files(paths, dest)
    \/ \E p \in GateArgs, run \in GitRuns : get_git_status(p, run)
    \/ \E p \in GateArgs : git_diff_line_ranges(p, <<97>>)
    \/ \E p \in GateArgs, is_untracked \in {"none", "true"} :
            git_diff(p, <<97>>, FALSE, is_untracked, FALSE)
    \/ \E p \in GateArgs, files \in GateFiles : git_stage(p, files, "Ok")
    \/ \E p \in GateArgs, files \in GateFiles : git_unstage(p, files, "Ok")
    \/ \E p \in GateArgs, files \in GateFiles : git_discard(p, files)
    \/ \E p \in GateArgs, stage \in BOOLEAN : git_resolve_conflict(p, <<97>>, "x", stage, "Ok")

SpecGate == InitEntries /\ [][NextGate]_vars

\* the commands that take a list of paths, on lists with a path outside the
\* project at any place
BulkArgs ==
    {<<"proj", "a.txt">>, <<"proj", "d">>, <<"proj", "n.txt">>, <<"out", "s.txt">>}
BulkLists == UNION {[1..k -> BulkArgs] : k \in 0..MaxList}
NextBulk ==
    \/ \E p \in {<<"proj">>, <<"proj", "d">>} : set_project_root(p)
    \/ \E paths \in BulkLists, trash_works \in BOOLEAN : delete_entries(paths, trash_works)
    \/ \E sources \in BulkLists, dest \in BulkArgs : move_entries(sources, dest)
    \/ \E sources \in BulkLists, dest \in BulkArgs : paste_entries(sources, dest)

SpecBulk == InitEntries /\ [][NextBulk]_vars

NextPaste ==
    \/ \E p \in PasteDests : set_project_root(p)
    \/ \E sources \in PasteLists, dest \in PasteDests : paste_entries(sources, dest)
    \/ \E sources \in PasteLists, dest \in PasteDests : import_external_files(sources, dest)

SpecPaste == InitEntries /\ [][NextPaste]_vars

\* the copies of directories: one with a symlink in it, a chain deeper than
\* the limit and one as deep as the limit, into the project, into themselves
\* and into a directory of their own
CopyArgs == {<<"proj">>, <<"proj", "d">>, <<"proj", "c">>, <<"proj", "c", "c", "c">>}
CopyLists == {<<p>> : p \in CopyArgs}
CopyDests == {<<"proj">>, <<"proj", "d", "e">>}

NextCopy ==
    \/ set_project_root(<<"proj">>)
    \/ \E p \in CopyArgs : duplicate_entry(p)
    \/ \E sources \in CopyLists, dest \in CopyDests : paste_entries(sources, dest)
    \/ \E sources \in CopyLists, dest \in CopyDests : import_external_files(sources, dest)

SpecCopy == InitTree /\ [][NextCopy]_vars

\* the projects of the copy names: a.txt in /proj with the names of its
\* copies taken, all MaxCopies of them, all but the last, all but the third,
\* and none
NameTaken(taken) ==
    BaseTree @@ (<<"proj", "a.txt">> :> File("x")) @@ (<<"proj", "d">> :> Dir)
             @@ (<<"out", "a.txt">> :> File("z"))
             @@ [k \in {<<"proj", CopyName("a", ".txt", i)>> : i \in taken} |-> File("y")]
NameTrees ==
    {NameTaken(1..MaxCopies), NameTaken(1..(MaxCopies - 1)),
     NameTaken((1..MaxCopies) \ {3}), NameTaken({})}
NameArgs == {<<"proj", "a.txt">>, <<"proj", "d">>, <<"out", "a.txt">>}
NameLists ==
    {<<<<"proj", "a.txt">>>>, <<<<"out", "a.txt">>>>, <<<<"proj", "d">>, <<"proj", "a.txt">>>>}
NameDests == {<<"proj">>, <<"proj", "d">>}

InitNames ==
    /\ sessions = <<>>
    /\ next_id = 1
    /\ calls = <<>>
    /\ readers = <<>>
    /\ emitted = {}
    /\ killed = {}
    /\ retired = {}
    /\ last = NoCall
    /\ rd_state = "running"
    /\ rd_pending = <<>>
    /\ rd_all = <<>>
    /\ rd_chunks = <<>>
    /\ fs \in NameTrees
    /\ project_root = NoRoot
    /\ fs_before = fs
    /\ fs_last = NoFsCall
    /\ fs_ops = 0
    /\ mutex = 0
    /\ threads = <<>>
    /\ stalled = {}
    /\ pty_in = <<>>

NextNames ==
    \/ set_project_root(<<"proj">>)
    \/ \E p \in NameArgs : duplicate_entry(p)
    \/ \E sources \in NameLists, dest \in NameDests : paste_entries(sources, dest)
    \/ \E sources \in NameLists, dest \in NameDests : import_external_files(sources, dest)

SpecNames == InitNames /\ [][NextNames]_vars

\* what git status --porcelain -uall -z prints for a file: XY, a blank, the
\* path, NUL, and after a rename or a copy the path it had before, NUL
OldPath == <<98, 46, 114, 115>>
Porcelain(x, y, file_path) ==
    <<x, y, 32>> \o file_path \o <<0>>
        \o (IF x \in {StatusByte("R"), StatusByte("C")} THEN OldPath \o <<0>> ELSE <<>>)
StatusPaths == {<<97>>, <<97, 47, 97>>}
\* the outputs parsed: nothing, an entry cut short, one entry of every pair
\* of letters, every pair followed by an untracked file, and an untracked file
\* followed by a renamed one and by one in conflict
SecondEntries ==
    {Porcelain(StatusByte(c[1]), StatusByte(c[2]), <<97, 47, 97>>) :
        c \in {<<"R", " ">>, <<"U", "U">>}}
StatusOutputs ==
    {<<>>, <<63, 63, 32, 0>>}
        \cup {Porcelain(x, y, file_path) : x \in StatusBytes, y \in StatusBytes,
                                           file_path \in StatusPaths}
        \cup {Porcelain(x, y, <<97>>)
                \o Porcelain(StatusByte("?"), StatusByte("?"), <<97, 47, 97>>) :
                x \in StatusBytes, y \in StatusBytes}
        \cup {Porcelain(StatusByte("?"), StatusByte("?"), <<97>>) \o second :
                second \in SecondEntries}
StatusRuns == GitRuns \cup {Printed(stdout) : stdout \in StatusOutputs}

NextStatus ==
    \/ set_project_root(<<"proj">>)
    \/ \E run \in StatusRuns : get_git_status(<<"proj">>, run)

SpecStatus == InitEntries /\ [][NextStatus]_vars

NextGit ==
    \/ set_project_root(<<"proj">>)
    \/ \E repo_path \in RepoArgs, file_path \in FilePaths :
            git_diff_line_ranges(repo_path, file_path)
    \/ \E repo_path \in RepoArgs, file_path \in SomeFiles, staged \in BOOLEAN,
          is_untracked \in {"none", "true", "false"}, answer \in BOOLEAN :
            git_diff(repo_path, file_path, staged, is_untracked, answer)
    \/ \E repo_path \in RepoArgs, paths \in FileLists, git \in GitOutcomes :
            git_stage(repo_path, paths, git)
    \/ \E repo_path \in RepoArgs, paths \in FileLists, git \in GitOutcomes :
            git_unstage(repo_path, paths, git)
    \/ \E repo_path \in RepoArgs, paths \in FileLists : git_discard(repo_path, paths)
    \/ \E repo_path \in RepoArgs, file_path \in SomeFiles, content \in GitContents,
          stage \in BOOLEAN, git \in GitOutcomes :
            git_resolve_conflict(repo_path, file_path, content, stage, git)

SpecGit == Init /\ [][NextGit]_vars

SpecReader == Init /\ [][NextReader]_vars

NextTerm ==
    \/ spawn_open
    \/ spawn_fail
    \/ \E p \in Ptys : spawn_register(p)
    \/ \E p \in Ptys : spawn_reader(p)
    \/ \E id \in Ids : write_terminal(id)
    \/ \E id \in Ids : resize_terminal(id)
    \/ \E id \in Ids : kill_terminal(id)
    \/ \E p \in Ptys : reader_emit(p)
    \/ \E p \in Ptys : reader_exit(p)

SpecTerm == Init /\ [][NextTerm]_vars

(* ----------------------- claims on terminal.rs ------------------------- *)

\* C2 as stated: write_terminal(id) and resize_terminal(id) fail with the
\* session-not-found error exactly when id was never issued by spawn_terminal or
\* a kill_terminal(id) call has already completed.
C2_Original ==
    last.op \in {"write", "resize"} =>
        ((last.res = "SessionNotFound") <=>
            (last.id \notin Assigned \/ last.id \in killed))

\* C2 (amended): write_terminal(id) and resize_terminal(id) fail with the
\* session-not-found error exactly when id is not in the session table, that is
\* when no spawn_terminal has taken id from the counter yet or a kill_terminal(id)
\* has removed its entry since; once removed the id stays absent, and the failing
\* call changes neither the table nor the id counter.
C2_NotFoundIffAbsent ==
    /\ [](\A id \in Ids :
            id \in DOMAIN sessions <=> (id \in Assigned /\ id \notin retired))
    /\ [][\A id \in Ids : (write_terminal(id) \/ resize_terminal(id)) =>
            /\ (last'.res = "SessionNotFound") <=> (id \notin DOMAIN sessions)
            /\ (last'.res = "SessionNotFound") =>
                    (sessions' = sessions /\ next_id' = next_id)]_vars

\* a write or resize on an id that was issued and then killed fails
C2_Witness ==
    /\ last.op \in {"write", "resize"}
    /\ last.id \in retired
    /\ last.res = "SessionNotFound"

C6_Original ==
    \A p \in DOMAIN readers : readers[p].state = "closed" =>
        /\ readers[p].event \notin DOMAIN sessions
        /\ (last.op \in {"write", "resize"} /\ last.id = readers[p].event)
                => last.res = "SessionNotFound"

\* C6 (amended): end-of-stream or a read error ends the reader and leaves the
\* session table and the id counter alone; the id stays in the table until
\* kill_terminal(id) removes it, write_terminal and resize_terminal on it fail
\* with session-not-found only after that kill, and the id is never issued again.
C6_ClosedStaysUntilKill ==
    /\ [](\A p \in DOMAIN readers : readers[p].state = "closed" =>
            /\ readers[p].event \in DOMAIN sessions <=> readers[p].event \notin retired
            /\ readers[p].event < next_id
            /\ (last.op \in {"write", "resize"} /\ last.id = readers[p].event)
                    => ((last.res = "SessionNotFound") <=> (last.id \in retired)))
    /\ [][\A p \in Ptys : reader_exit(p) =>
            (sessions' = sessions /\ next_id' = next_id)]_vars

\* a write reaches the table entry of a session whose reader has already ended
C6_Witness ==
    \E p \in DOMAIN readers :
        /\ readers[p].state = "closed"
        /\ readers[p].event \in DOMAIN sessions
        /\ last.op = "write"
        /\ last.id = readers[p].event
        /\ last.res # "SessionNotFound"

\* C7: kill_terminal(id) returns success whether or not id is in the table,
\* removes the entry of id and no other, leaves the id counter, the spawn calls
\* and the readers alone, and can always be taken: it waits for no reader.
C7_KillFrame ==
    /\ [][\A id \in Ids : kill_terminal(id) =>
            /\ DOMAIN sessions' = DOMAIN sessions \ {id}
            /\ \A k \in DOMAIN sessions' : sessions'[k] = sessions[k]
            /\ next_id' = next_id
            /\ last'.res = "Ok"
            /\ readers' = readers
            /\ emitted' = emitted
            /\ calls' = calls]_vars
    /\ [](\A id \in Ids : ENABLED kill_terminal(id))

\* a kill has removed an entry while its reader still runs and another session lives
C7_Witness ==
    /\ last.op = "kill"
    /\ last.id \in retired
    /\ DOMAIN sessions # {}
    /\ \E p \in DOMAIN readers :
            readers[p].event = last.id /\ readers[p].state = "running"

\* C8: every chunk emitted on the event stream of id i was read from the PTY
\* opened by the spawn_terminal call that took i.
C8_EventFromOwnPty ==
    \A e \in emitted : OwnerPtys(e.event) = {e.pty}

\* the reader of a killed session and the reader of a later session have both emitted
C8_Witness ==
    /\ Cardinality(emitted) = 2
    /\ \E e \in emitted : e.event \in retired

(* ------------------ claims on the reader thread's loop ------------------ *)
RECURSIVE ConcatField(_, _, _)
ConcatField(chunks, i, raw) ==
    IF i > Len(chunks) THEN <<>>
    ELSE (IF raw THEN chunks[i].raw ELSE chunks[i].text) \o ConcatField(chunks, i + 1, raw)
\* the bytes taken out of the stream by the chunks, and the text they carry
EmittedRaw == ConcatField(rd_chunks, 1, TRUE)
EmittedText == ConcatField(rd_chunks, 1, FALSE)

\* C4: a chunk emitted before the end of the stream carries exactly the bytes
\* it took from the stream, all of them whole characters: it does not begin with
\* a continuation byte, ends on a character boundary and holds no replacement
\* character; and when the bytes read so far are well-formed text, nothing is
\* held back and the chunks carry every character of it whole.
C4_ChunksAreWholeCharacters ==
    /\ \A i \in DOMAIN rd_chunks : ~rd_chunks[i].final =>
            /\ rd_chunks[i].text = rd_chunks[i].raw
            /\ Replacement \notin Range(rd_chunks[i].text)
            /\ ~IsCont(rd_chunks[i].raw[1])
            /\ from_utf8_ok(rd_chunks[i].raw)
    /\ from_utf8_ok(rd_all) =>
            (rd_pending = <<>> /\ EmittedText = rd_all
                /\ \A i \in DOMAIN rd_chunks : ~rd_chunks[i].final)

\* a character whose first bytes were held back from an earlier read is emitted whole
C4_Witness ==
    \E i \in DOMAIN rd_chunks :
        /\ ~rd_chunks[i].final
        /\ rd_chunks[i].held > 0
        /\ rd_chunks[i].raw = <<240, 169, 169, 169>>

\* C5: the chunks take the bytes of the stream in order, none dropped,
\* repeated or moved; when the reader has ended on end-of-stream or a read
\* error the emitted text is the lossy decoding of all bytes read, a held-back
\* tail was emitted once, as the last chunk, and a reader that has ended emits
\* nothing more.
C5_NoByteLost ==
    /\ [](/\ rd_state = "running" => EmittedRaw \o rd_pending = rd_all
          /\ rd_state = "done" =>
                /\ EmittedRaw = rd_all
                /\ EmittedText = from_utf8_lossy(rd_all)
                /\ \A i \in DOMAIN rd_chunks : rd_chunks[i].final => i = Len(rd_chunks)
                /\ rd_pending # <<>> =>
                        (rd_chunks # <<>> /\ rd_chunks[Len(rd_chunks)].final
                            /\ rd_chunks[Len(rd_chunks)].raw = rd_pending))
    /\ [][rd_state = "done" => UNCHANGED readerVars]_vars

\* the stream ended inside a character after earlier chunks: the tail went out
\* once, as a replacement character
C5_Witness ==
    /\ rd_state = "done"
    /\ Len(rd_chunks) >= 2
    /\ rd_chunks[Len(rd_chunks)].final
    /\ rd_chunks[Len(rd_chunks)].text = <<Replacement>>
    /\ Len(rd_pending) >= 2

(* ------------------ claims about the path guard ------------------------- *)
\* the commands of this model that call validate_path on their argument
PathGated == {"read_file_content", "write_file_content", "create_file", "create_folder"}

\* the path resolves, to an entry or to a name yet to be created in an existing
\* directory, and that place is not the root or below it
ResolvesOutside(f, root, p) ==
    /\ root.some
    /\ Resolve(f, p).st \in {"found", "missing"}
    /\ ~StartsWith(Resolve(f, p).path, root.path)

\* C1: a path-gated command called on a path whose resolved target lies outside
\* the project root is refused and leaves the filesystem unchanged, inside and
\* outside the root. (The claim names the error too, access-denied; the formula
\* asks only for some error, so that what breaks it is a command that went
\* through.)
C1_OutsideIsRefusedAndUntouched ==
    (/\ fs_last.op \in PathGated
     /\ ResolvesOutside(fs_before, project_root, fs_last.path))
    => (fs_last.res # "Ok" /\ fs = fs_before)

\* C9: for a path that exists and whose canonical form is the project root or a
\* descendant of it, validate_path succeeds and returns canonicalize(p): a real
\* path, with no "..", that is no symlink.
C9_ReturnsCanonical ==
    (/\ fs_last.op \in PathGated
     /\ project_root.some
     /\ canonicalize(fs_before, fs_last.path).ok
     /\ StartsWith(canonicalize(fs_before, fs_last.path).path, project_root.path))
    => (/\ fs_last.vp = Accept(canonicalize(fs_before, fs_last.path).path)
        /\ fs_last.vp.path \in DOMAIN fs_before
        /\ fs_before[fs_last.vp.path].kind # "link"
        /\ \A i \in DOMAIN fs_last.vp.path : fs_last.vp.path[i] \in Names)

\* a path through a symlink or a ".." was validated: what came back is not
\* what was passed
C9_Witness ==
    /\ fs_last.op = "read_file_content"
    /\ project_root.some
    /\ canonicalize(fs_before, fs_last.path).ok
    /\ StartsWith(canonicalize(fs_before, fs_last.path).path, project_root.path)
    /\ fs_last.vp.ok
    /\ fs_last.vp.path # fs_last.path

\* C10 as stated: validate_repo_path accepts a canonicalizable path when it is
\* the project root, a descendant of it or an ancestor of it, and rejects it
\* with access-denied only when it is neither.
C10_Original ==
    (/\ fs_last.op = "get_git_status"
     /\ project_root.some
     /\ canonicalize(fs_before, fs_last.path).ok)
    => LET c == canonicalize(fs_before, fs_last.path).path IN
       /\ fs_last.vp.ok <=> (StartsWith(c, project_root.path) \/ StartsWith(project_root.path, c))
       /\ ~fs_last.vp.ok => fs_last.vp.err = "AccessDenied"

\* C10: validate_repo_path accepts a canonicalizable path exactly when it is the
\* project root or a descendant of it, and rejects any other with access-denied,
\* an ancestor of the root included.
C10_RootOrDescendantOnly ==
    (/\ fs_last.op = "get_git_status"
     /\ project_root.some
     /\ canonicalize(fs_before, fs_last.path).ok)
    => LET c == canonicalize(fs_before, fs_last.path).path IN
       /\ fs_last.vp.ok <=> StartsWith(c, project_root.path)
       /\ fs_last.vp.ok => fs_last.vp.path = c
       /\ ~fs_last.vp.ok => fs_last.vp.err = "AccessDenied"

\* a VCS command was called on a proper ancestor of the root, and was denied
C10_Witness ==
    /\ fs_last.op = "get_git_status"
    /\ project_root.some
    /\ canonicalize(fs_before, fs_last.path).ok
    /\ StartsWith(project_root.path, canonicalize(fs_before, fs_last.path).path)
    /\ project_root.path # canonicalize(fs_before, fs_last.path).path
    /\ fs_last.vp.err = "AccessDenied"
    /\ fs_last.res = "AccessDenied"

(* ------------------ claims about the file commands ---------------------- *)
\* the path resolves, to an entry or to a name yet to be created in an existing
\* directory, and that place is the root or below it
ResolvesInside(f, root, p) ==
    /\ root.some
    /\ Resolve(f, p).st \in {"found", "missing"}
    /\ StartsWith(Resolve(f, p).path, root.path)

\* C13: for a path p inside the project root, a successful
\* write_file_content(p, c) followed at once by read_file_content(p) returns
\* exactly c.
C13_RoundTrip ==
    [][(/\ fs_last.op = "write_file_content"
        /\ fs_last.res = "Ok"
        /\ ResolvesInside(fs_before, project_root, fs_last.path)
        /\ fs_last'.op = "read_file_content"
        /\ fs_last'.path = fs_last.path)
       => (fs_last'.res = "Ok" /\ fs_last'.out = fs_last.arg)]_vars

\* a read gave back a text that only a write can have stored
C13_Witness ==
    /\ fs_last.op = "read_file_content"
    /\ fs_last.res = "Ok"
    /\ fs_last.out \in WriteContents
    /\ fs_ops > 0
    /\ ResolvesInside(fs, project_root, fs_last.path)

\* the command was let through, its target did not exist, and there was no
\* entry of any kind where the target's parent directory is to be, in a
\* directory that exists
ParentMissing(f, call) ==
    /\ call.vp.ok
    /\ Len(call.path) >= 2
    /\ call.path[Len(call.path)] # ".."
    /\ call.path[Len(call.path) - 1] # ".."
    /\ ~exists(f, call.path)
    /\ Walk(f, <<>>, Parent(call.path), FALSE).st = "missing"

\* the target exists and the guard let the command through
TargetExists(f, call) == call.vp.ok /\ exists(f, call.path)

\* C17 as stated: create_file and create_folder fail with already-exists and
\* change nothing when the target exists; create_file creates the missing
\* parent directories, create_folder creates none.
C17_Original ==
    /\ (fs_last.op \in {"create_file", "create_folder"} /\ TargetExists(fs_before, fs_last))
        => (fs_last.res = "AlreadyExists" /\ fs = fs_before)
    /\ (fs_last.op = "create_file" /\ ParentMissing(fs_before, fs_last))
        => (fs_last.res = "Ok" /\ is_dir(fs, Parent(fs_last.path)))
    /\ (fs_last.op = "create_folder" /\ ParentMissing(fs_before, fs_last))
        => ~is_dir(fs, Parent(fs_last.path))

\* C17: create_file and create_folder fail with already-exists and change
\* nothing when the target exists; both create the missing parent directories,
\* create_file then the empty file and create_folder the directory, and neither
\* touches an entry that was there.
C17_BothCreateParents ==
    /\ (fs_last.op \in {"create_file", "create_folder"} /\ TargetExists(fs_before, fs_last))
        => (fs_last.res = "AlreadyExists" /\ fs = fs_before)
    /\ (fs_last.op \in {"create_file", "create_folder"} /\ ParentMissing(fs_before, fs_last))
        => (/\ fs_last.res = "Ok"
            /\ is_dir(fs, Parent(fs_last.path))
            /\ fs_last.op = "create_folder" => is_dir(fs, fs_last.path)
            /\ fs_last.op = "create_file" =>
                /\ exists(fs, fs_last.path)
                /\ fs[Resolve(fs, fs_last.path).path] = File("")
            /\ \A k \in DOMAIN fs_before : fs[k] = fs_before[k])

\* create_folder made a directory whose parent did not exist
C17_Witness ==
    /\ fs_last.op = "create_folder"
    /\ ParentMissing(fs_before, fs_last)
    /\ fs_last.res = "Ok"
    /\ is_dir(fs, Parent(fs_last.path))
    /\ is_dir(fs, fs_last.path)

\* the destination of the call is the directory the i-th source names, or is
\* below it
DestInSource(f, call, i) ==
    /\ canonicalize(f, call.arg[i]).ok
    /\ is_dir(f, call.arg[i])
    /\ canonicalize(f, call.path).ok
    /\ StartsWith(canonicalize(f, call.path).path, canonicalize(f, call.arg[i]).path)

\* C12: a move_entries(sources, dest) call in which dest is a source directory
\* D itself or a descendant of D fails with an error and leaves the filesystem
\* as it was, wherever D stands in the list.
C12_MoveIntoSelfChangesNothing ==
    (/\ fs_last.op = "move_entries"
     /\ project_root.some
     /\ \E i \in DOMAIN fs_last.arg : DestInSource(fs_before, fs_last, i))
    => (fs_last.res # "Ok" /\ fs = fs_before)

\* C14: a second delete_entries call with the same list right after a
\* successful first call returns success and changes nothing; in a successful
\* call the listed paths that were absent are skipped and every listed entry
\* that was present is gone.
C14_DeleteTwice ==
    /\ [][(/\ fs_last.op = "delete_entries"
           /\ fs_last.res = "Ok"
           /\ fs_last'.op = "delete_entries"
           /\ fs_last'.arg = fs_last.arg)
          => (fs_last'.res = "Ok" /\ fs' = fs)]_vars
    /\ []((fs_last.op = "delete_entries" /\ fs_last.res = "Ok")
          => \A i \in DOMAIN fs_last.arg :
                canonicalize(fs_before, fs_last.arg[i]).ok
                => canonicalize(fs_before, fs_last.arg[i]).path \notin DOMAIN fs)

\* the names the copies of a.txt are to get, in turn
CopiesOfA == <<"a copy.txt", "a copy 2.txt", "a copy 3.txt", "a copy 4.txt">>
\* how many of them, from the first on, are taken in dir
RECURSIVE Taken(_, _, _)
Taken(f, dir, k) ==
    IF k < Len(CopiesOfA) /\ exists(f, Append(dir, CopiesOfA[k + 1]))
    THEN Taken(f, dir, k + 1) ELSE k

\* C15: duplicate_entry on the file a.txt creates "a copy.txt" the first time,
\* "a copy 2.txt" the second, "a copy k.txt" when the k - 1 names before are
\* taken: the new entry has the content of a.txt, and nothing that was there,
\* a.txt included, is overwritten or changed.
C15_FirstFreeCopyName ==
    (/\ fs_last.op = "duplicate_entry"
     /\ fs_last.vp.ok
     /\ Last(fs_last.vp.path) = "a.txt"
     /\ fs_before[fs_last.vp.path].kind = "file")
    => LET dir == Parent(fs_last.vp.path)
           k == Taken(fs_before, dir, 0) + 1
       IN /\ fs_last.res = "Ok"
          /\ fs = Put(fs_before, Append(dir, CopiesOfA[k]), fs_before[fs_last.vp.path])

\* a.txt was duplicated a second time, next to "a copy.txt"
C15_Witness ==
    /\ fs_last.op = "duplicate_entry"
    /\ fs_last.res = "Ok"
    /\ fs_last.path = <<"proj", "a.txt">>
    /\ <<"proj", "a copy.txt">> \in DOMAIN fs_before
    /\ <<"proj", "a copy 2.txt">> \notin DOMAIN fs_before
    /\ <<"proj", "a copy 2.txt">> \in DOMAIN fs
    /\ fs[<<"proj", "a copy 2.txt">>] = fs[<<"proj", "a.txt">>]

\* the names of the entries of the directory dir that are no symlink and not
\* .git
Shown(f, dir) ==
    {k[Len(k)] : k \in {j \in DOMAIN f : /\ j # <<>>
                                         /\ Parent(j) = Resolve(f, dir).path
                                         /\ f[j].kind # "link"
                                         /\ j[Len(j)] # ".git"}}

\* nodes, the listing of dir at this level, is as C16 says for the depth d
RECURSIVE AsClaimed(_, _, _, _, _)
AsClaimed(f, nodes, dir, level, d) ==
    /\ level <= d
    /\ {nodes[i].name : i \in DOMAIN nodes} = Shown(f, dir)
    /\ Len(nodes) = Cardinality(Shown(f, dir))
    /\ \A i \in DOMAIN nodes :
        LET n == nodes[i] IN
        /\ n.path = Append(dir, n.name)
        /\ n.is_dir = is_dir(f, n.path)
        /\ ~n.is_dir => n.children = NoChildren
        /\ (n.is_dir /\ level = d) => n.children = SomeChildren(<<>>)
        /\ (n.is_dir /\ level < d) =>
            /\ n.children.some
            /\ AsClaimed(f, n.children.list, n.path, level + 1, d)

\* C16: read_dir_tree(path, d), d capped at 50 and 1 when not given, the direct
\* entries of path being level 0: a directory node below level d carries its
\* listed children, a directory node at level d carries a present and empty
\* list, no node is deeper than level d, a file node carries no list.
C16_DepthCap ==
    (fs_last.op = "read_dir_tree" /\ fs_last.res = "Ok")
    => AsClaimed(fs, fs_last.out, fs_last.path, 0,
                 IF ~fs_last.arg.some THEN 1
                 ELSE IF fs_last.arg.d > 50 THEN 50 ELSE fs_last.arg.d)

\* the listing at a given level below the first directory of each level;
\* <<>> when there is none
RECURSIVE Descend(_, _)
Descend(nodes, level) ==
    IF level = 0 THEN nodes
    ELSE IF nodes = <<>> \/ ~nodes[1].is_dir THEN <<>>
    ELSE Descend(nodes[1].children.list, level - 1)

\* the chain of directories was read with a depth above the cap: its level 50
\* is there, a directory that has a directory in it, with an empty list
C16_Witness ==
    /\ fs_last.op = "read_dir_tree"
    /\ fs_last.res = "Ok"
    /\ fs_last.arg.some
    /\ fs_last.arg.d > 50
    /\ Len(Descend(fs_last.out, 50)) = 1
    /\ Descend(fs_last.out, 50)[1].children = SomeChildren(<<>>)
    /\ is_dir(fs, Append(Descend(fs_last.out, 50)[1].path, "c"))

(* ------------------ claims about the VCS commands ----------------------- *)
VcsFileCommands ==
    {"git_diff", "git_stage", "git_unstage", "git_discard", "git_diff_line_ranges",
     "git_resolve_conflict"}
\* the conditions of C18 on one file path, stated on its bytes: no "..", no
\* leading "/" or "\", no ":" as the second byte, no NUL
AcceptableFile(b) ==
    /\ \A i \in 1..(Len(b) - 1) : ~(b[i] = 46 /\ b[i + 1] = 46)
    /\ (Len(b) >= 1 => b[1] # 47 /\ b[1] # 92)
    /\ (Len(b) >= 2 => b[2] # 58)
    /\ \A i \in 1..Len(b) : b[i] # 0

\* C18: a VCS command whose repository was accepted goes on to its subprocess
\* or its write exactly when every file path it was given contains no `..`,
\* starts with neither `/` nor `\`, has no `:` as its second byte and contains
\* no NUL; when a file path is rejected the command fails, has started no
\* subprocess and has written no file.
C18_FilePathCheck ==
    (fs_last.op \in VcsFileCommands /\ fs_last.vp.ok)
    => /\ (\A i \in DOMAIN fs_last.arg : AcceptableFile(fs_last.arg[i]))
            <=> fs_last.res \notin {"Traversal", "Absolute", "NulByte"}
       /\ (\E i \in DOMAIN fs_last.arg : ~AcceptableFile(fs_last.arg[i]))
            => (fs_last.res # "Ok" /\ fs_last.out = <<>> /\ fs = fs_before)

\* git_resolve_conflict was given a file path with a drive letter in a
\* repository that was accepted, and wrote nothing
C18_Witness ==
    /\ fs_last.op = "git_resolve_conflict"
    /\ fs_last.vp.ok
    /\ fs_last.arg = <<(<<97, 58>>)>>
    /\ fs_last.res = "Absolute"
    /\ fs = fs_before

(* --------------- claims about paste_entries and imports ----------------- *)
BulkCopies == {"paste_entries", "import_external_files"}
\* the call copied and stopped with an error at its k-th source
StoppedAt(call, k) ==
    /\ call.op \in BulkCopies
    /\ call.vp.ok
    /\ call.res \notin {"Ok", "NotADirectory"}
    /\ call.out = k
\* the names in the directory dest that were not there before
NewIn(dest) ==
    {k \in DOMAIN fs \ DOMAIN fs_before :
        k # <<>> /\ Parent(k) = canonicalize(fs_before, dest).path}
\* the entry the source resolved to and everything below it are as they were
SourceIntact(src) ==
    canonicalize(fs_before, src).ok
    => LET at == canonicalize(fs_before, src).path
       IN /\ Subtree(fs, at) = Subtree(fs_before, at)
          /\ \A k \in Subtree(fs_before, at) : fs[k] = fs_before[k]
\* the copies of the sources before the k-th are in dest, no less and at most
\* one more (what the k-th left), and nothing that was on disk is gone
PrefixCopied(call, k) ==
    /\ Cardinality(NewIn(call.path)) \in {k - 1, k}
    /\ \A i \in 1..(k - 1) :
            \E n \in NewIn(call.path) : fs[n] = fs_before[canonicalize(fs_before, call.arg[i]).path]
    /\ DOMAIN fs_before \subseteq DOMAIN fs

\* C19: when a paste_entries or import_external_files call fails in copying its
\* k-th source, it returns an error, the copies of the sources before the k-th
\* remain in the destination, no source after the k-th is processed, and no
\* source entry is modified or removed.
C19_NoRollbackSourcesIntact ==
    \A k \in 1..MaxList + 1 :
        StoppedAt(fs_last, k)
        => /\ PrefixCopied(fs_last, k)
           /\ \A i \in DOMAIN fs_last.arg : SourceIntact(fs_last.arg[i])

(* ---------------- claims about the session-table mutex ------------------ *)
\* thread w is inside write_all on a PTY that takes no more input
BlockedInWrite(w) == At(w, "write", "io") /\ threads[w].id \in stalled
\* thread t has called a command that concerns another session than w's
ConcernsOther(t, w) ==
    /\ t \in DOMAIN threads
    /\ threads[t].pc = "wait"
    /\ threads[t].op = "spawn" \/ threads[t].id # threads[w].id

\* C20: no command is inside a call on the PTY (write, flush, resize) while it
\* holds the session-table mutex; so a write_terminal blocked in its PTY write
\* does not hold the mutex that a command on another session waits for.
C20_NoPtyIoUnderLock ==
    /\ \A t \in DOMAIN threads : threads[t].pc = "io" => mutex # t
    /\ \A w, t \in DOMAIN threads : (BlockedInWrite(w) /\ ConcernsOther(t, w)) => mutex # w

(* ---------------- claims about the state with no project ---------------- *)
\* the commands that validate a path before anything else
Gated ==
    {"read_file_content", "write_file_content", "create_file", "create_folder",
     "read_dir_tree", "move_entries", "delete_entries", "duplicate_entry", "paste_entries",
     "import_external_files", "get_git_status", "git_diff_line_ranges", "git_diff",
     "git_stage", "git_unstage", "git_discard", "git_resolve_conflict"}
\* the latest command was given no path at all
NoPathGiven == fs_last.op = "delete_entries" /\ fs_last.arg = <<>>

\* C11 as stated: as long as no set_project_root has succeeded, every gated
\* command fails with the no-project-open error and leaves the filesystem as it
\* was, whatever it was given.
C11_Original ==
    (~project_root.some /\ fs_last.op \in Gated)
    => (fs_last.res = "NoProjectOpen" /\ fs = fs_before)

\* C11: as long as no set_project_root has succeeded, every gated command that
\* is given a path fails with the no-project-open error, and every gated
\* command leaves the filesystem as it was; delete_entries of the empty list
\* has no path to validate and returns success.
C11_NoProjectOpen ==
    (~project_root.some /\ fs_last.op \in Gated)
    => /\ fs = fs_before
       /\ ~NoPathGiven => fs_last.res = "NoProjectOpen"
       /\ NoPathGiven => fs_last.res = "Ok"

\* with no project open, a write to a file that is there was refused
C11_Witness ==
    /\ ~project_root.some
    /\ fs_last.op = "write_file_content"
    /\ exists(fs_before, fs_last.path)
    /\ fs_last.res = "NoProjectOpen"
    /\ fs = fs_before

(* ------------- claims about paths that do not exist yet ----------------- *)
\* the paths p.parent(), its parent and so on name
Ancestors(p) == {SubSeq(p, 1, k) : k \in (IF IsRelative(p) THEN 1 ELSE 0)..(Len(p) - 1)}
ExistingAncestors(f, p) == {a \in Ancestors(p) : exists(f, a)}
NearestExisting(f, p) ==
    CHOOSE a \in ExistingAncestors(f, p) : \A b \in ExistingAncestors(f, p) : Len(b) <= Len(a)
\* the components below the nearest existing ancestor; all of them if there is none
Stripped(f, p) ==
    IF ExistingAncestors(f, p) = {} THEN SubSeq(p, 2, Len(p))
    ELSE SubSeq(p, Len(NearestExisting(f, p)) + 1, Len(p))

CanonicalIn(f, path) ==
    /\ ~IsRelative(path)
    /\ \A i \in DOMAIN path : path[i] \in Names
    /\ path \in DOMAIN f
    /\ f[path].kind # "link"
    /\ \A k \in 0..Len(path) : f[SubSeq(path, 1, k)].kind # "link"

\* C24: the project root is unset or an absolute path with no "..", set by the
\* latest successful set_project_root; a set_project_root on a path that can be
\* canonicalized replaces the root by its canonical form, a real path of the
\* filesystem at that time with no symlink in it; one on a path that cannot
\* fails and leaves the root as it was; and nothing else changes the root.
C24_RootIsCanonical ==
    /\ [](project_root.some =>
            (~IsRelative(project_root.path)
                /\ \A i \in DOMAIN project_root.path : project_root.path[i] \in Names))
    /\ [][fs_last'.op = "set_project_root" =>
            IF exists(fs, fs_last'.path)
            THEN /\ fs_last'.res = "Ok"
                 /\ project_root'.some
                 /\ CanonicalIn(fs, project_root'.path)
                 /\ Resolve(fs, fs_last'.path).path = project_root'.path
            ELSE /\ fs_last'.res = "InvalidPath"
                 /\ project_root' = project_root]_vars
    /\ [][project_root' # project_root =>
            (fs_last'.op = "set_project_root" /\ fs_last'.res = "Ok")]_vars

\* with the root set to /out, a set_project_root on a path that does not exist
\* has failed, and the root is still /out
C24_Witness ==
    /\ fs_last.op = "set_project_root"
    /\ fs_last.res = "InvalidPath"
    /\ ~exists(fs, fs_last.path)
    /\ project_root = [some |-> TRUE, path |-> <<"out">>]

(* --------------- claims about what the reader holds back ---------------- *)
\* p is the beginning of one multi-byte character, short of its last byte
IncompleteTail(p) ==
    /\ p # <<>>
    /\ Len(p) < utf8_char_width(p[1])
    /\ Len(p) >= 2 => IF utf8_char_width(p[1]) = 2 THEN IsCont(p[2]) ELSE SecondOk(p[1], p[2])
    /\ Len(p) >= 3 => IsCont(p[3])

\* C22: after each read the reader has processed, what it holds back is
\* nothing or the incomplete tail of one multi-byte character, at most 3 bytes,
\* and every byte read before that tail has been emitted, in every byte stream,
\* those with bytes that are not valid UTF-8 too.
C22_HeldBackIsOneTail ==
    rd_state = "running" =>
        /\ Len(rd_pending) <= 3
        /\ rd_pending = <<>> \/ IncompleteTail(rd_pending)
        /\ EmittedRaw \o rd_pending = rd_all

(* ------------- claims about the commands and the reader threads --------- *)
\* C21: each spawn_terminal that returns an id has started exactly one reader,
\* on the event stream of that id, and started it after the entry of the id was
\* inserted in the session table (a kill_terminal may have removed it again by
\* then); no two readers share an id. A reader's steps need neither the mutex
\* nor the table and change neither: a running reader can emit and end whoever
\* holds the mutex and whatever the table holds, so also after kill_terminal,
\* which leaves the readers alone; and a command that waits for a free mutex
\* gets it whatever the readers do.
C21_ReaderApartFromTable ==
    /\ [](/\ \A t \in DOMAIN threads :
                (threads[t].op = "spawn" /\ threads[t].pc = "done") <=> t \in DOMAIN readers
          /\ \A t \in DOMAIN readers : readers[t].event = threads[t].id
          /\ \A t, u \in DOMAIN readers : t # u => readers[t].event # readers[u].event
          /\ \A t \in DOMAIN readers : readers[t].state = "running" =>
                (ENABLED reader_emit(t) /\ ENABLED reader_exit(t))
          /\ \A t \in DOMAIN threads :
                (threads[t].pc = "wait" /\ mutex = 0) => ENABLED lock(t))
    /\ [][/\ \A t \in Threads : spawn_return(t) =>
                /\ t \notin DOMAIN readers
                /\ threads[t].id \in DOMAIN sessions \cup retired
                /\ threads[t].id < next_id
          /\ \A t \in Threads : (reader_emit(t) \/ reader_exit(t)) =>
                /\ sessions' = sessions
                /\ next_id' = next_id
                /\ lockVars' = lockVars
          /\ \A t \in Threads : kill_remove(t) => (readers' = readers /\ emitted' = emitted)]_vars

\* the reader of a killed session runs on and has emitted, while a
\* write_terminal holds the mutex
C21_Witness ==
    \E t \in DOMAIN readers, w \in DOMAIN threads :
        /\ readers[t].state = "running"
        /\ readers[t].event \in retired
        /\ [event |-> readers[t].event, pty |-> t] \in emitted
        /\ mutex = w
        /\ At(w, "write", "locked")

(* ------------------------ the recursive copy --------------------------- *)
CopyCommands == {"paste_entries", "duplicate_entry", "import_external_files"}
\* the paths the last command gave as what to copy
SourcesOfLast ==
    IF fs_last.op = "duplicate_entry" THEN {fs_last.path} ELSE Range(fs_last.arg)
\* what the last command put on disk, and the tops of the trees it put there
NewPaths == DOMAIN fs \ DOMAIN fs_before
NewTops == {n \in NewPaths : Parent(n) \in DOMAIN fs_before}
Below(top, n) == SubSeq(n, Len(top) + 1, Len(n))
\* a directory more than MAX_COPY_DEPTH levels below the directory at
DeeperThanLimit(f, at) ==
    \E k \in DOMAIN f :
        StartsWith(k, at) /\ f[k].kind = "dir" /\ Len(k) - Len(at) > MAX_COPY_DEPTH

\* C25: every recursive copy of paste_entries, duplicate_entry and
\* import_external_files comes to an end, also into the copied directory itself
\* or below it; what it writes lies below one new top, directories at most
\* MAX_COPY_DEPTH levels below it; a source deeper than that fails with the
\* depth error, which is given only when the copy got MAX_COPY_DEPTH levels
\* down; and every new entry is the copy of an entry of the same kind at the
\* same place below the source that is no symlink and lies behind none.
C25_CopyIsBounded ==
    fs_last.op \in CopyCommands =>
        /\ fs_last.res # "Unfinished"
        /\ \A n \in NewPaths : \E top \in NewTops : StartsWith(n, top)
        /\ \A top \in NewTops : \E src \in SourcesOfLast :
              \E from \in {Resolve(fs_before, src).path} :
                 \A n \in NewPaths : StartsWith(n, top) =>
                    /\ Len(n) - Len(top) <= MAX_COPY_DEPTH + 1
                    /\ fs[n].kind = "dir" => Len(n) - Len(top) <= MAX_COPY_DEPTH
                    /\ fs[n].kind # "link"
                    /\ from \o Below(top, n) \in DOMAIN fs
                    /\ fs[from \o Below(top, n)] = fs[n]
        /\ fs_last.res = "Ok" =>
              \A src \in SourcesOfLast :
                 is_dir(fs_before, src) =>
                    /\ ~DeeperThanLimit(fs_before, Resolve(fs_before, src).path)
                    /\ \E top \in NewTops :
                          \A k \in DOMAIN fs_before :
                             (/\ StartsWith(k, Resolve(fs_before, src).path)
                              /\ fs_before[k].kind # "link")
                                => /\ top \o Below(Resolve(fs_before, src).path, k) \in DOMAIN fs
                                   /\ fs[top \o Below(Resolve(fs_before, src).path, k)]
                                        = fs_before[k]
        /\ fs_last.res = "DepthExceeded" =>
              \E top \in NewTops, n \in NewPaths :
                 /\ StartsWith(n, top)
                 /\ fs[n].kind = "dir"
                 /\ Len(n) - Len(top) = MAX_COPY_DEPTH
        /\ \A k \in DOMAIN fs_before : fs[k] = fs_before[k]

\* /proj, which holds a symlink, pasted into a directory of its own: the copy
\* stops with the depth error MAX_COPY_DEPTH levels down, and no l was written
C25_Witness ==
    /\ fs_last.op = "paste_entries"
    /\ fs_last.arg = <<<<"proj">>>>
    /\ fs_last.path = <<"proj", "d", "e">>
    /\ <<"proj", "l">> \in DOMAIN fs_before
    /\ fs_before[<<"proj", "l">>].kind = "link"
    /\ fs_last.res = "DepthExceeded"
    /\ \E n \in NewPaths :
          /\ StartsWith(n, <<"proj", "d", "e", "proj">>)
          /\ Len(n) - 4 = MAX_COPY_DEPTH
    /\ \A n \in NewPaths : Last(n) # "l"

(* ------------------------ the loop of copy names ------------------------ *)
\* the directory the copy of the last command is put in, the source whose turn
\* it was when the command stopped, and the i-th name the loop tries for a source
LoopDir == IF fs_last.op = "duplicate_entry" THEN Parent(fs_last.path) ELSE fs_last.path
SourceInTurn ==
    IF fs_last.op = "duplicate_entry" THEN fs_last.path ELSE fs_last.arg[fs_last.out]
PlainName(src) == Append(LoopDir, Last(src))
Candidate(src, i) ==
    Append(LoopDir,
           CopyName(file_stem(Last(src)),
                    IF fs_last.op = "duplicate_entry" /\ is_dir(fs_before, src) THEN ""
                    ELSE DotExtension(Last(src)), i))
\* the loop is entered: always by duplicate_entry, by the others when the
\* source's own name is taken in the destination
LoopEntered(src) == fs_last.op = "duplicate_entry" \/ exists(fs, PlainName(src))
CopyErrors == {"DepthExceeded", "CopyFailed", "IoError"}

CodeOfPair(x, y) ==
    IF x = StatusByte("?") /\ y = StatusByte("?") THEN "U"
    ELSE IF <<x, y>> \in ConflictPairs THEN "C"
    ELSE IF x \in {StatusByte("A"), StatusByte("R")} THEN "A"
    ELSE IF x = StatusByte("M") /\ y = StatusByte(" ") THEN "S"
    ELSE IF StatusByte("D") \in {x, y} THEN "D"
    ELSE "M"
StatusReported ==
    fs_last.op = "get_git_status" /\ fs_last.res = "Ok" /\ fs_last.arg.success

Inserted == {t \in DOMAIN threads : threads[t].op = "spawn" /\ threads[t].pc \in {"inserted", "done"}}
TableAndReadersKept ==
    /\ sessions' = sessions
    /\ next_id' = next_id
    /\ readers' = readers
    /\ retired' = retired

\* C28: a spawn_terminal that returns an error from openpty, spawn_command,
\* take_writer, try_clone_reader or state.lock() leaves the session table and
\* next_id as they were, has no id and never gets a reader; next_id moves only
\* in the step of a spawn that holds the lock, and that step inserts the entry
\* under the id, which the call then returns after starting the reader.
C28_FailedSpawnLeavesNoTrace ==
    /\ [](/\ \A t \in DOMAIN threads :
                (threads[t].op = "spawn" /\ threads[t].pc = "failed") =>
                    (threads[t].id = 0 /\ t \notin DOMAIN readers)
          /\ next_id - 1 = Cardinality(Inserted)
          /\ \A t \in Inserted : threads[t].id < next_id
          /\ \A t, u \in Inserted : t # u => threads[t].id # threads[u].id
          /\ \A t \in DOMAIN threads : At(t, "spawn", "inserted") => ENABLED spawn_return(t))
    /\ [][/\ \A step \in SpawnSteps : spawn_fails(step) =>
                (TableAndReadersKept /\ last'.op = "spawn" /\ last'.res = "Err")
          /\ \A t \in DOMAIN threads : (threads[t].op = "spawn" /\ lock_fails(t)) =>
                (TableAndReadersKept /\ last'.op = "spawn" /\ last'.res = "Err")
          /\ \A t \in DOMAIN threads : threads[t].pc = "failed" => threads'[t] = threads[t]
          /\ next_id' # next_id =>
                \E t \in DOMAIN threads :
                    /\ At(t, "spawn", "locked")
                    /\ mutex = t
                    /\ threads'[t] = Thread("spawn", next_id, "inserted")
                    /\ next_id' = next_id + 1
                    /\ next_id \notin DOMAIN sessions
                    /\ DOMAIN sessions' = DOMAIN sessions \cup {next_id}
          /\ \A t \in Threads : spawn_return(t) =>
                /\ last' = [op |-> "spawn", id |-> threads[t].id, res |-> "Ok"]
                /\ t \notin DOMAIN readers
                /\ readers'[t].event = threads[t].id]_vars

\* after a spawn that returned 1, one spawn failed before the lock and one at
\* the lock: the table holds the one session and next_id is 2
C28_Witness ==
    /\ \E t, u \in DOMAIN threads :
          /\ t < u
          /\ threads[t] = Thread("spawn", 1, "done")
          /\ threads[u] = Thread("spawn", 0, "failed")
    /\ last = [op |-> "spawn", id |-> 0, res |-> "Err"]
    /\ next_id = 2
    /\ DOMAIN sessions = {1}
    /\ Cardinality(DOMAIN readers) = 1

(* ------------------------ validation before mutation -------------------- *)
BulkCommands == {"delete_entries", "move_entries", "paste_entries"}
\* every path argument of the last command in the order it is validated: the
\* sources, then the destination where there is one
PathsOfLast ==
    IF fs_last.op = "delete_entries" THEN fs_last.arg ELSE Append(fs_last.arg, fs_last.path)
RefusedAt ==
    {i \in DOMAIN PathsOfLast : ~validate_path(fs_before, project_root, PathsOfLast[i]).ok}

\* C29: delete_entries, move_entries and paste_entries validate all their
\* paths, the sources and the destination, before they change anything: when
\* one of them is refused, wherever it stands, the call returns the error of
\* the first refused path and the filesystem is as it was; when none is
\* refused the call gets past the validation.
C29_ValidatedBeforeMutation ==
    fs_last.op \in BulkCommands =>
        IF RefusedAt # {}
        THEN /\ fs = fs_before
             /\ ~fs_last.vp.ok
             /\ \E i \in RefusedAt :
                   /\ \A j \in RefusedAt : i <= j
                   /\ fs_last.res = validate_path(fs_before, project_root, PathsOfLast[i]).err
        ELSE fs_last.vp.ok

\* a.txt of the project and s.txt outside it were to be deleted: access to
\* the second is denied and a.txt is still there
C29_Witness ==
    /\ fs_last.op = "delete_entries"
    /\ fs_last.arg = <<<<"proj", "a.txt">>, <<"out", "s.txt">>>>
    /\ project_root.some
    /\ validate_path(fs_before, project_root, <<"proj", "a.txt">>).ok
    /\ fs_last.res = "AccessDenied"
    /\ <<"proj", "a.txt">> \in DOMAIN fs
    /\ fs = fs_before

(* ------------- claims about writes and kills that race ------------------ *)
\* the bytes of the write_terminal call of thread t in the input of its PTY
BytesOfCall(t) ==
    IF threads[t].id \in DOMAIN pty_in
    THEN {i \in DOMAIN pty_in[threads[t].id] : pty_in[threads[t].id][i] = t}
    ELSE {}
\* the bytes of every call lie side by side in the input of the PTY
Contiguous ==
    \A id \in DOMAIN pty_in : \A i, k \in DOMAIN pty_in[id] :
        (i < k /\ pty_in[id][i] = pty_in[id][k])
        => \A j \in i..k : pty_in[id][j] = pty_in[id][i]
\* a write_terminal between its lookup and its return has the guard and its session
WriteHoldsSession ==
    \A t \in DOMAIN threads :
        At(t, "write", "io") => (mutex = t /\ threads[t].id \in DOMAIN sessions)
\* thread t is a write_terminal on session id between its lookup and its return
WritingTo(t, id) == At(t, "write", "io") /\ threads[t].id = id
\* the step removes session id from the table
Removes(id) == id \in DOMAIN sessions /\ id \notin DOMAIN sessions'
\* the step is the lookup of the write_terminal of thread t, and it fails
LookupFails(t) == At(t, "write", "locked") /\ threads'[t].pc = "done"

\* C30: the bytes of one write_terminal call reach the PTY side by side, with
\* no byte of another call between them; a write_terminal that found its
\* session keeps the session and the guard until write_all and flush are over,
\* so no kill_terminal removes the session in between; and a write_terminal
\* whose lookup finds no session returns session-not-found and writes nothing.
C30_WritesAreAtomic ==
    /\ [](Contiguous /\ WriteHoldsSession)
    /\ [][\A id \in Ids : Removes(id) => \A t \in DOMAIN threads : ~WritingTo(t, id)]_vars
    /\ [][\A t \in DOMAIN threads :
            LookupFails(t) => /\ threads[t].id \notin DOMAIN sessions
                              /\ last'.res = "SessionNotFound"
                              /\ pty_in' = pty_in
                              /\ BytesOfCall(t) = {}]_vars

\* two write_terminal calls on one session have both written all their bytes,
\* and a kill_terminal called while they ran has removed the session since
C30_Witness ==
    \E w, v, k \in DOMAIN threads :
        /\ w # v
        /\ threads[w].op = "write" /\ threads[v].op = "write"
        /\ threads[w].id = threads[v].id /\ threads[k].id = threads[w].id
        /\ threads[w].pc = "done" /\ threads[v].pc = "done"
        /\ Cardinality(BytesOfCall(w)) = DataLen /\ Cardinality(BytesOfCall(v)) = DataLen
        /\ k < v
        /\ At(k, "kill", "done")
        /\ threads[k].id \in retired

====
